---------------------------- MODULE Spec2Model ----------------------------
(***************************************************************************)
(* A model of the d64 disk image engine (class d64).  The image is the     *)
(* byte buffer `data`; the BAM, the directory and the file chains are      *)
(* read and written as bytes at the offsets the packed structures of       *)
(* d64_types.h overlay on that buffer.  Every operation is an operator on  *)
(* a disk record [TRACKS, data, lastSectorUsed] that returns the record    *)
(* after the call and the call's result; the actions apply them.           *)
(*                                                                         *)
(* `data` maps the linear index of a 256-byte sector (byte offset \div     *)
(* 256) to its 256 bytes.  Sectors that are absent from the map hold the   *)
(* format fill 0x01 in every byte.                                         *)
(***************************************************************************)
EXTENDS Integers, Sequences, FiniteSets, TLC

\* ------------------------------------------------------------------------
\* Program constants
\* ------------------------------------------------------------------------
TRACKS_35 == 35
TRACKS_40 == 40
SECTOR_SIZE == 256
DISK_NAME_SZ == 16
FILE_NAME_SZ == 16
DIRECTORY_TRACK == 18
DIRECTORY_SECTOR == 1
BAM_SECTOR == 0
FILES_PER_SECTOR == 8
D64_DISK35_SZ == 174848
D64_DISK40_SZ == 196608
SIDE_SECTOR_ENTRY_SIZE == 6
SIDE_SECTOR_CHAIN_SZ == (SECTOR_SIZE - 15) \div 2
A0_VALUE == 160
DOS_VERSION == 65
DOS_TYPE == 50
INTERLEAVE == 10
FORMAT_FILL == 1
LAST_SECTOR_INIT == 1
BAM_EXTRA_OFFSET == 172
DIR_ENTRY_BYTES == 32

\* enum d64FileTypes
DEL == 0
SEQ == 1
PRG == 2
USR == 3
REL == 4

SECTORS_PER_TRACK ==
  << 21, 21, 21, 21, 21, 21, 21, 21, 21, 21, 21, 21, 21, 21, 21, 21, 21,
     19, 19, 19, 19, 19, 19, 19,
     18, 18, 18, 18, 18, 18,
     17, 17, 17, 17, 17,
     17, 17, 17, 17, 17 >>

TRACK_OFFSETS ==
  << 0, 5376, 10752, 16128, 21504, 26880, 32256, 37632, 43008, 48384,
     53760, 59136, 64512, 69888, 75264, 80640, 86016, 91392, 96256, 101120,
     105984, 110848, 115712, 120576, 125440, 130048, 134656, 139264, 143872, 148480,
     153088, 157440, 161792, 166144, 170496, 174848, 179200, 183552, 187904, 192256 >>

TRACK_40_SEARCH_ORDER ==
  << 18, 17, 19, 16, 20, 15, 21, 14, 22, 13, 23, 12, 24, 11, 25, 10, 26, 9,
     27, 8, 28, 7, 29, 6, 30, 5, 31, 4, 32, 3, 33, 2, 34, 1, 35, 36, 37, 38, 39, 40 >>

\* the default disk name "NEW DISK"
NEW_DISK_NAME == << 78, 69, 87, 32, 68, 73, 83, 75 >>

\* ------------------------------------------------------------------------
\* Small helpers
\* ------------------------------------------------------------------------
Min(a, b) == IF a < b THEN a ELSE b

Pow2(n) == CASE n = 0 -> 1 [] n = 1 -> 2 [] n = 2 -> 4 [] n = 3 -> 8
             [] n = 4 -> 16 [] n = 5 -> 32 [] n = 6 -> 64 [] OTHER -> 128

\* std::bitset<8>::test / set / reset on one byte
BitTest(b, bit) == ((b \div Pow2(bit)) % 2) = 1
BitSet(b, bit) == IF BitTest(b, bit) THEN b ELSE b + Pow2(bit)
BitReset(b, bit) == IF BitTest(b, bit) THEN b - Pow2(bit) ELSE b

Repeat(v, n) == [i \in 1..n |-> v]

\* ------------------------------------------------------------------------
\* Geometry and buffer
\* ------------------------------------------------------------------------
DiskSize(TRACKS) == IF TRACKS = TRACKS_35 THEN D64_DISK35_SZ ELSE D64_DISK40_SZ

\* isValidTrackSector that takes every track up to 40 as present
isValidTrackSectorAnyDisk(d, track, sector) ==
  /\ track >= 1
  /\ track <= TRACKS_40
  /\ sector >= 0
  /\ sector < SECTORS_PER_TRACK[track]

isValidTrackSector(d, track, sector) ==
  /\ track >= 1
  /\ track <= d.TRACKS
  /\ sector >= 0
  /\ sector < SECTORS_PER_TRACK[track]

\* calcOffset with sectors of one byte less
calcOffsetShortSector(track, sector) == TRACK_OFFSETS[track] + sector * (SECTOR_SIZE - 1)

\* calcOffset throws on an invalid coordinate; callers test isValidTrackSector
\* first and take the exception path themselves
calcOffset(track, sector) == TRACK_OFFSETS[track] + sector * SECTOR_SIZE

SectorBytes(data, k) == IF k \in DOMAIN data THEN data[k] ELSE Repeat(FORMAT_FILL, SECTOR_SIZE)

GetByte(data, off) == SectorBytes(data, off \div SECTOR_SIZE)[(off % SECTOR_SIZE) + 1]

GetBytes(data, off, n) == [i \in 1..n |-> GetByte(data, off + i - 1)]

\* copy `bytes` into the buffer at byte offset off (the range may cross into
\* the sectors that follow in the buffer)
RECURSIVE WriteAt(_, _, _)
WriteAt(data, off, bytes) ==
  IF Len(bytes) = 0 THEN data
  ELSE
    LET k == off \div SECTOR_SIZE
        p == off % SECTOR_SIZE
        n == Min(Len(bytes), SECTOR_SIZE - p)
        old == SectorBytes(data, k)
        new == SubSeq(old, 1, p) \o SubSeq(bytes, 1, n) \o SubSeq(old, p + n + 1, SECTOR_SIZE)
        data1 == IF k \in DOMAIN data THEN [data EXCEPT ![k] = new] ELSE (k :> new) @@ data
    IN WriteAt(data1, off + n, SubSeq(bytes, n + 1, Len(bytes)))

SetByte(data, off, v) == WriteAt(data, off, << v >>)

\* writeData: [d, ok]
writeData(d, track, sector, bytes, byteoffset) ==
  IF byteoffset < 0 \/ byteoffset >= SECTOR_SIZE THEN [d |-> d, ok |-> FALSE]
  ELSE LET index == calcOffset(track, sector) + byteoffset
       IN IF index >= 0 /\ index + Len(bytes) <= DiskSize(d.TRACKS)
            THEN [d |-> [d EXCEPT !.data = WriteAt(d.data, index, bytes)], ok |-> TRUE]
          ELSE [d |-> d, ok |-> FALSE]

\* the public calcOffset: [d, ok, exc, value]
calcOffsetChecked(d, track, sector) ==
  IF ~isValidTrackSector(d, track, sector)
    THEN [d |-> d, ok |-> FALSE, exc |-> TRUE, value |-> 0]
  ELSE [d |-> d, ok |-> TRUE, exc |-> FALSE, value |-> calcOffset(track, sector)]

\* writeByte: [d, ok, exc]
writeByte(d, track, sector, byteoffset, value) ==
  IF ~isValidTrackSector(d, track, sector) \/ byteoffset < 0 \/ byteoffset >= SECTOR_SIZE
    THEN [d |-> d, ok |-> FALSE, exc |-> FALSE]
  ELSE LET w == writeData(d, track, sector, << value >>, byteoffset)
       IN [d |-> w.d, ok |-> w.ok, exc |-> FALSE]

\* readByte: [d, ok, exc, value]; ok is has_value()
readByte(d, track, sector, byteoffset) ==
  IF ~isValidTrackSector(d, track, sector) \/ byteoffset < 0 \/ byteoffset >= SECTOR_SIZE
    THEN [d |-> d, ok |-> FALSE, exc |-> FALSE, value |-> << >>]
  ELSE LET offset == calcOffset(track, sector) + byteoffset
       IN IF offset >= 0 /\ offset < DiskSize(d.TRACKS)
            THEN [d |-> d, ok |-> TRUE, exc |-> FALSE, value |-> << GetByte(d.data, offset) >>]
          ELSE [d |-> d, ok |-> FALSE, exc |-> FALSE, value |-> << >>]

\* readSector: [d, ok, exc, value]; ok is has_value()
readSector(d, track, sector) ==
  IF ~isValidTrackSector(d, track, sector)
    THEN [d |-> d, ok |-> FALSE, exc |-> FALSE, value |-> << >>]
  ELSE LET index == calcOffset(track, sector)
       IN IF index >= 0 /\ index + SECTOR_SIZE <= DiskSize(d.TRACKS)
            THEN [d |-> d, ok |-> TRUE, exc |-> FALSE,
                  value |-> GetBytes(d.data, index, SECTOR_SIZE)]
          ELSE [d |-> d, ok |-> FALSE, exc |-> FALSE, value |-> << >>]

\* writeSector: [d, ok, exc]
writeSector(d, track, sector, bytes) ==
  IF ~isValidTrackSector(d, track, sector) \/ Len(bytes) # SECTOR_SIZE
    THEN [d |-> d, ok |-> FALSE, exc |-> TRUE]
  ELSE LET w == writeData(d, track, sector, bytes, 0)
       IN [d |-> w.d, ok |-> w.ok, exc |-> FALSE]

\* ------------------------------------------------------------------------
\* BAM: struct bamTrackEntry { uint8_t free; std::array<uint8_t,3> bytes; }
\* ------------------------------------------------------------------------
BamOffset == calcOffset(DIRECTORY_TRACK, BAM_SECTOR)

\* bamtrack(t), t zero based: the byte offset of the track's entry
bamtrack(t) ==
  IF t < TRACKS_35 THEN BamOffset + 4 + 4 * t
  ELSE BamOffset + BAM_EXTRA_OFFSET + 4 * (t - TRACKS_35)

BamFree(data, t) == GetByte(data, bamtrack(t))

BamTest(data, t, sector) ==
  BitTest(GetByte(data, bamtrack(t) + 1 + (sector \div 8)), sector % 8)

BamSetBit(data, t, sector) ==
  LET o == bamtrack(t) + 1 + (sector \div 8)
  IN SetByte(data, o, BitSet(GetByte(data, o), sector % 8))

BamResetBit(data, t, sector) ==
  LET o == bamtrack(t) + 1 + (sector \div 8)
  IN SetByte(data, o, BitReset(GetByte(data, o), sector % 8))

BamSetFree(data, t, v) == SetByte(data, bamtrack(t), v % 256)

\* allocateSector that clears the bit and leaves the free count alone
allocateSectorKeepCount(d, track, sector) ==
  IF ~isValidTrackSector(d, track, sector)
    THEN [d |-> d, ok |-> FALSE, exc |-> TRUE]
  ELSE IF ~BamTest(d.data, track - 1, sector)
    THEN [d |-> d, ok |-> FALSE, exc |-> FALSE]
  ELSE [d |-> [d EXCEPT !.data = BamResetBit(d.data, track - 1, sector)],
        ok |-> TRUE, exc |-> FALSE]

\* allocateSector: [d, ok, exc]
allocateSector(d, track, sector) ==
  IF ~isValidTrackSector(d, track, sector)
    THEN [d |-> d, ok |-> FALSE, exc |-> TRUE]
  ELSE IF ~BamTest(d.data, track - 1, sector)
    THEN [d |-> d, ok |-> FALSE, exc |-> FALSE]
  ELSE LET d1 == BamResetBit(d.data, track - 1, sector)
           d2 == BamSetFree(d1, track - 1, BamFree(d1, track - 1) + 255)
       IN [d |-> [d EXCEPT !.data = d2], ok |-> TRUE, exc |-> FALSE]

\* freeSector without the two early returns for (18,1) and (18,0)
freeSectorUnguarded(d, track, sector) ==
  IF ~isValidTrackSector(d, track, sector)
    THEN [d |-> d, ok |-> FALSE, exc |-> TRUE]
  ELSE IF BamTest(d.data, track - 1, sector)
    THEN [d |-> d, ok |-> FALSE, exc |-> FALSE]
  ELSE LET d1 == BamSetBit(d.data, track - 1, sector)
           d2 == BamSetFree(d1, track - 1, BamFree(d1, track - 1) + 1)
       IN [d |-> [d EXCEPT !.data = d2], ok |-> TRUE, exc |-> FALSE]

\* freeSector: [d, ok, exc]
freeSector(d, track, sector) ==
  IF ~isValidTrackSector(d, track, sector)
    THEN [d |-> d, ok |-> FALSE, exc |-> TRUE]
  ELSE IF track = DIRECTORY_TRACK /\ sector = DIRECTORY_SECTOR
    THEN [d |-> d, ok |-> FALSE, exc |-> FALSE]
  ELSE IF track = DIRECTORY_TRACK /\ sector = BAM_SECTOR
    THEN [d |-> d, ok |-> FALSE, exc |-> FALSE]
  ELSE IF BamTest(d.data, track - 1, sector)
    THEN [d |-> d, ok |-> FALSE, exc |-> FALSE]
  ELSE LET d1 == BamSetBit(d.data, track - 1, sector)
           d2 == BamSetFree(d1, track - 1, BamFree(d1, track - 1) + 1)
       IN [d |-> [d EXCEPT !.data = d2], ok |-> TRUE, exc |-> FALSE]

\* the scan of findAndAllocateFreeOnTrack from offset i: the first offset
\* whose sector has its bit set, or the sector count when there is none
RECURSIVE TrackScan(_, _, _)
TrackScan(d, track, i) ==
  LET n == SECTORS_PER_TRACK[track]
      start_sector == (d.lastSectorUsed[track] + INTERLEAVE) % n
  IN IF i >= n THEN n
     ELSE IF BamTest(d.data, track - 1, (start_sector + i) % n) THEN i
     ELSE TrackScan(d, track, i + 1)

\* findAndAllocateFreeOnTrack returns true
CanAllocateOnTrack(d, track) ==
  /\ BamFree(d.data, track - 1) >= 1
  /\ TrackScan(d, track, 0) < SECTORS_PER_TRACK[track]

\* findAndAllocateFreeOnTrack that takes the start sector of the scan
\* without testing its bit
findAndAllocateFreeOnTrackNoScan(d, track) ==
  LET n == SECTORS_PER_TRACK[track]
      start_sector == (d.lastSectorUsed[track] + INTERLEAVE) % n
  IN IF ~CanAllocateOnTrack(d, track)
       THEN [d |-> d, ok |-> FALSE, sector |-> 0]
     ELSE LET a == allocateSector(d, track, start_sector)
          IN [d |-> [a.d EXCEPT !.lastSectorUsed[track] = start_sector],
              ok |-> TRUE, sector |-> start_sector]

\* findAndAllocateFreeOnTrack that leaves the cursor of the track alone
findAndAllocateFreeOnTrackKeepCursor(d, track) ==
  LET n == SECTORS_PER_TRACK[track]
      start_sector == (d.lastSectorUsed[track] + INTERLEAVE) % n
  IN IF ~CanAllocateOnTrack(d, track)
       THEN [d |-> d, ok |-> FALSE, sector |-> 0]
     ELSE LET i == TrackScan(d, track, 0)
              search_sector == (start_sector + i) % n
              a == allocateSector(d, track, search_sector)
          IN [d |-> a.d, ok |-> TRUE, sector |-> search_sector]

\* findAndAllocateFreeOnTrack: [d, ok, sector]
findAndAllocateFreeOnTrack(d, track) ==
  LET n == SECTORS_PER_TRACK[track]
      start_sector == (d.lastSectorUsed[track] + INTERLEAVE) % n
  IN IF ~CanAllocateOnTrack(d, track)
       THEN [d |-> d, ok |-> FALSE, sector |-> 0]
     ELSE LET i == TrackScan(d, track, 0)
              search_sector == (start_sector + i) % n
              a == allocateSector(d, track, search_sector)
          IN [d |-> [a.d EXCEPT !.lastSectorUsed[track] = search_sector],
              ok |-> TRUE, sector |-> search_sector]

\* the tracks findAndAllocateFreeSector tries, in order
SearchOrder(d) ==
  SelectSeq(TRACK_40_SEARCH_ORDER, LAMBDA t : ~(d.TRACKS = TRACKS_35 /\ t > TRACKS_35))

\* the loop of findAndAllocateFreeSector from position i of the search order
RECURSIVE OrderScan(_, _, _)
OrderScan(d, order, i) ==
  IF i > Len(order) THEN 0
  ELSE IF CanAllocateOnTrack(d, order[i]) THEN i
  ELSE OrderScan(d, order, i + 1)

\* findAndAllocateFreeOnTrack returned r on track t
AllocatedOnTrack(t, r) == [d |-> r.d, ok |-> TRUE, track |-> t, sector |-> r.sector]

\* the body of the loop of findAndAllocateFreeSector at position i of the
\* search order (0: the loop ran out of tracks)
AllocateAt(d, order, i) ==
  IF i = 0 THEN [d |-> d, ok |-> FALSE, track |-> 0, sector |-> 0]
  ELSE AllocatedOnTrack(order[i], findAndAllocateFreeOnTrack(d, order[i]))

AllocateIn(d, order) == AllocateAt(d, order, OrderScan(d, order, 1))

\* findAndAllocateFreeSector that leaves the directory track out
findAndAllocateFreeSectorSkipDirectory(d) ==
  AllocateIn(d, SelectSeq(SearchOrder(d), LAMBDA t : t # DIRECTORY_TRACK))

\* findAndAllocateFreeSector that tries the tracks in ascending order
findAndAllocateFreeSectorAscending(d) == AllocateIn(d, [t \in 1..d.TRACKS |-> t])

\* findAndAllocateFreeSector: [d, ok, track, sector]
findAndAllocateFreeSector(d) == AllocateIn(d, SearchOrder(d))

\* getFreeSectorCount that adds the directory track as well
getFreeSectorCountAllTracks(d) ==
  LET RECURSIVE Sum(_)
      Sum(t) == IF t > d.TRACKS THEN 0 ELSE BamFree(d.data, t - 1) + Sum(t + 1)
  IN Sum(1) % 65536

\* getFreeSectorCount (uint16_t sum over all tracks but the directory track)
getFreeSectorCount(d) ==
  LET RECURSIVE Sum(_)
      Sum(t) == IF t > d.TRACKS THEN 0
                ELSE (IF t = DIRECTORY_TRACK THEN 0 ELSE BamFree(d.data, t - 1)) + Sum(t + 1)
  IN Sum(1) % 65536


\* ------------------------------------------------------------------------
\* Format
\* ------------------------------------------------------------------------
\* the BAM sector as initializeBAMFields and the "mark all sectors free" loop
\* of initBAM leave it (entries of tracks TRACKS+1..40 are not written)
FreshBamSector(TRACKS, name) ==
  [i \in 1..SECTOR_SIZE |->
     LET o == i - 1
         len == Min(Len(name), DISK_NAME_SZ)
         t == IF o >= 4 /\ o < 4 + 4 * TRACKS_35 THEN (o - 4) \div 4
              ELSE IF o >= BAM_EXTRA_OFFSET /\ o < BAM_EXTRA_OFFSET + 4 * (TRACKS - TRACKS_35)
                THEN TRACKS_35 + ((o - BAM_EXTRA_OFFSET) \div 4)
              ELSE 0 - 1
         f == IF o >= BAM_EXTRA_OFFSET THEN (o - BAM_EXTRA_OFFSET) % 4 ELSE (o - 4) % 4
     IN IF t >= 0 /\ t < TRACKS
          THEN IF f = 0 THEN SECTORS_PER_TRACK[t + 1]
               ELSE LET bits == { b \in 0..7 : 8 * (f - 1) + b < SECTORS_PER_TRACK[t + 1] }
                        RECURSIVE Val(_)
                        Val(b) == IF b > 7 THEN 0
                                  ELSE (IF b \in bits THEN Pow2(b) ELSE 0) + Val(b + 1)
                    IN Val(0)
        ELSE IF o = 0 THEN DIRECTORY_TRACK
        ELSE IF o = 1 THEN DIRECTORY_SECTOR
        ELSE IF o = 2 THEN DOS_VERSION
        ELSE IF o = 3 THEN 0
        ELSE IF o >= 144 /\ o < 144 + DISK_NAME_SZ
          THEN (IF o - 144 < len THEN name[o - 144 + 1] ELSE A0_VALUE)
        ELSE IF o \in {160, 161, 162, 163, 164} THEN A0_VALUE
        ELSE IF o = 165 THEN DOS_TYPE
        ELSE IF o = 166 THEN DOS_VERSION
        ELSE 0]

\* initBAM that allocates the BAM sector only
initBAMWithoutDirectory(d, name) ==
  LET d1 == WriteAt(<< >>, BamOffset, FreshBamSector(d.TRACKS, name))
      index == calcOffset(DIRECTORY_TRACK, DIRECTORY_SECTOR)
      d2 == WriteAt(d1, index, << 0, 255 >> \o Repeat(0, SECTOR_SIZE - 2))
      a1 == allocateSector([d EXCEPT !.data = d2], DIRECTORY_TRACK, BAM_SECTOR)
  IN a1.d

\* initBAM after the fill of formatDisk
initBAM(d, name) ==
  LET filled == << >>
      d1 == WriteAt(filled, BamOffset,
                    FreshBamSector(d.TRACKS, name))
      index == calcOffset(DIRECTORY_TRACK, DIRECTORY_SECTOR)
      d2 == WriteAt(d1, index, << 0, 255 >> \o Repeat(0, SECTOR_SIZE - 2))
      a1 == allocateSector([d EXCEPT !.data = d2], DIRECTORY_TRACK, BAM_SECTOR)
      a2 == allocateSector(a1.d, DIRECTORY_TRACK, DIRECTORY_SECTOR)
  IN a2.d

formatDisk(d, name) == initBAM(d, name)

\* init_disk: the state a constructor leaves
init_disk(TRACKS) ==
  formatDisk([TRACKS |-> TRACKS, data |-> << >>,
              lastSectorUsed |-> Repeat(LAST_SECTOR_INIT, TRACKS_40)], NEW_DISK_NAME)

\* diskname(): the name bytes up to the first 0xA0
diskname(d) ==
  LET nm == GetBytes(d.data, BamOffset + 144, DISK_NAME_SZ)
      stops == { i \in 1..DISK_NAME_SZ : nm[i] = A0_VALUE }
      n == IF stops = {} THEN DISK_NAME_SZ ELSE (CHOOSE x \in stops : \A y \in stops : x <= y) - 1
  IN SubSeq(nm, 1, n)

\* ------------------------------------------------------------------------
\* Directory: struct directorySector { trackSector next; directoryEntry fileEntry[8]; }
\* struct directoryEntry (32 bytes): file_type, start, fileName[16], side,
\* recordLength, unused[4], replace, fileSize[2], padd[2]
\* ------------------------------------------------------------------------
EntryOff(ts, i) == calcOffset(ts[1], ts[2]) + 2 + DIR_ENTRY_BYTES * i

Link(data, ts) == << GetByte(data, calcOffset(ts[1], ts[2])), GetByte(data, calcOffset(ts[1], ts[2]) + 1) >>

Closed(data, eo) == GetByte(data, eo) >= 128

TypeCode(data, eo) == GetByte(data, eo) % 16

\* the 30 bytes operator== of directoryEntry compares (padd is left out)
EntryFields(e) == SubSeq(e, 1, 30)

\* follow a chain of link headers from ts.  secs: the sectors visited in
\* order; err: "none" when a link track of 0 ended the walk, "exc" when
\* calcOffset threw on an invalid coordinate, "hang" when the walk came back
\* to a sector it had visited (the loop of the code never ends)
RECURSIVE ChainFrom(_, _, _)
ChainFrom(d, ts, acc) ==
  IF ts[1] = 0 THEN [secs |-> acc, err |-> "none"]
  ELSE IF ~isValidTrackSector(d, ts[1], ts[2]) THEN [secs |-> acc, err |-> "exc"]
  ELSE IF \E k \in 1..Len(acc) : acc[k] = ts THEN [secs |-> acc, err |-> "hang"]
  ELSE ChainFrom(d, Link(d.data, ts), Append(acc, ts))

DirWalk(d) == ChainFrom(d, << DIRECTORY_TRACK, DIRECTORY_SECTOR >>, << >>)

\* offsets of the live slots of the given directory sectors, in order
LiveSlots(d, secs) ==
  LET all == [k \in 1..(FILES_PER_SECTOR * Len(secs)) |->
                EntryOff(secs[((k - 1) \div FILES_PER_SECTOR) + 1], (k - 1) % FILES_PER_SECTOR)]
  IN SelectSeq(all, LAMBDA eo : Closed(d.data, eo))

\* directory(): [files, err]
directory(d) ==
  LET w == DirWalk(d)
      slots == LiveSlots(d, w.secs)
  IN [files |-> [k \in 1..Len(slots) |-> GetBytes(d.data, slots[k], DIR_ENTRY_BYTES)],
      err |-> w.err]

\* the name as findFile compares it: everything from the first 0xA0 on erased
NameToFirstA0(nm) ==
  LET stops == { i \in 1..Len(nm) : nm[i] = A0_VALUE }
      n == IF stops = {} THEN Len(nm) ELSE (CHOOSE x \in stops : \A y \in stops : x <= y) - 1
  IN SubSeq(nm, 1, n)

\* d64::Trim: trailing 0xA0 bytes erased
Trim(nm) ==
  LET keep == { i \in 1..Len(nm) : nm[i] # A0_VALUE }
      n == IF keep = {} THEN 0 ELSE CHOOSE x \in keep : \A y \in keep : x >= y
  IN SubSeq(nm, 1, n)

EntryName(e) == SubSeq(e, 4, 19)

\* findFile: [found, eo, err]; the exceptions of the walk are caught inside
findFile(d, filename) ==
  LET w == DirWalk(d)
      slots == LiveSlots(d, w.secs)
      hits == { k \in 1..Len(slots) :
                  NameToFirstA0(GetBytes(d.data, slots[k] + 3, FILE_NAME_SZ)) = filename }
  IN IF hits # {}
       THEN [found |-> TRUE, eo |-> slots[CHOOSE x \in hits : \A y \in hits : x <= y], err |-> "none"]
     ELSE [found |-> FALSE, eo |-> 0, err |-> IF w.err = "hang" THEN "hang" ELSE "none"]

PadName(name) ==
  [i \in 1..FILE_NAME_SZ |-> IF i <= Len(name) THEN name[i] ELSE A0_VALUE]


\* ------------------------------------------------------------------------
\* Sector-chain codec
\* ------------------------------------------------------------------------
\* writeFileDataToSectors: [d, allocatedSectors, exc].  The while loop is
\* run on the record w = [d, ts, offset, allocatedSectors, exc] of its local
\* variables: ts is (next_track, next_sector), exc is set by the throw.
\* writeDataToSector that stores the number of bytes used, not that number
\* plus one, in the link header of the last sector
writeDataToSectorShortLink(d, ts, fileData, offset, allocatedSectors, a) ==
  IF ~a.ok
    THEN [d |-> d, ts |-> ts, offset |-> offset, allocatedSectors |-> allocatedSectors,
          exc |-> TRUE]
  ELSE
    LET bytesLeft == Len(fileData) - offset
        len == Min(SECTOR_SIZE - 2, bytesLeft)
        next == IF bytesLeft - len = 0 THEN << 0, len % 256 >>
                ELSE << a.track % 256, a.sector % 256 >>
        bytes == next \o SubSeq(fileData, offset + 1, offset + len)
                      \o Repeat(0, SECTOR_SIZE - 2 - len)
    IN [d |-> [a.d EXCEPT !.data = WriteAt(a.d.data, calcOffset(ts[1], ts[2]), bytes)],
        ts |-> << a.track, a.sector >>, offset |-> offset + len,
        allocatedSectors |-> Append(allocatedSectors, ts), exc |-> FALSE]

\* one pass of the loop body on the sector ts: the link header and
\* writeDataToSector; a is the sector allocated for the rest of the payload,
\* if any is left
writeDataToSector(d, ts, fileData, offset, allocatedSectors, a) ==
  IF ~a.ok
    THEN [d |-> d, ts |-> ts, offset |-> offset, allocatedSectors |-> allocatedSectors,
          exc |-> TRUE]
  ELSE
    LET bytesLeft == Len(fileData) - offset
        len == Min(SECTOR_SIZE - 2, bytesLeft)
        next == IF bytesLeft - len = 0 THEN << 0, (len + 1) % 256 >>
                ELSE << a.track % 256, a.sector % 256 >>
        bytes == next \o SubSeq(fileData, offset + 1, offset + len)
                      \o Repeat(0, SECTOR_SIZE - 2 - len)
    IN [d |-> [a.d EXCEPT !.data = WriteAt(a.d.data, calcOffset(ts[1], ts[2]), bytes)],
        ts |-> << a.track, a.sector >>, offset |-> offset + len,
        allocatedSectors |-> Append(allocatedSectors, ts), exc |-> FALSE]

\* the loop condition and one pass
WritePass(w, fileData) ==
  IF w.exc \/ w.offset >= Len(fileData) THEN w
  ELSE writeDataToSector(w.d, w.ts, fileData, w.offset, w.allocatedSectors,
         IF Len(fileData) - w.offset > SECTOR_SIZE - 2 THEN findAndAllocateFreeSector(w.d)
         ELSE [d |-> w.d, ok |-> TRUE, track |-> 0,
               sector |-> Len(fileData) - w.offset + 1])

\* n passes of the loop, run as two halves
RECURSIVE WritePasses(_, _, _)
WritePasses(w, fileData, n) ==
  IF w.exc \/ n = 0 THEN w
  ELSE IF n = 1 THEN WritePass(w, fileData)
  ELSE WritePasses(WritePasses(w, fileData, n \div 2), fileData, n - (n \div 2))

\* the loop leaves after ceil((size - offset) / 254) passes at the latest
WriteDone(w) == [d |-> w.d, allocatedSectors |-> w.allocatedSectors, exc |-> w.exc]

writeFileDataToSectors(d, ts, fileData, offset, allocatedSectors) ==
  WriteDone(WritePasses([d |-> d, ts |-> ts, offset |-> offset,
                         allocatedSectors |-> allocatedSectors, exc |-> FALSE],
                        fileData, (Len(fileData) - offset + SECTOR_SIZE - 3) \div (SECTOR_SIZE - 2)))

\* readFile: [found, bytes, err]; err "ub" when a terminal link header holds
\* a sector byte of 0 (the insert range ends one before its begin)
RECURSIVE ReadChain(_, _, _, _)
ReadChain(d, ts, acc, seen) ==
  IF ts[1] = 0 THEN [bytes |-> acc, err |-> "none"]
  ELSE IF ~isValidTrackSector(d, ts[1], ts[2]) THEN [bytes |-> acc, err |-> "exc"]
  ELSE IF ts \in seen THEN [bytes |-> acc, err |-> "hang"]
  ELSE LET next == Link(d.data, ts)
           bytes == IF next[1] # 0 THEN SECTOR_SIZE - 2 ELSE next[2] - 1
       IN IF bytes < 0 THEN [bytes |-> acc, err |-> "ub"]
          ELSE ReadChain(d, next,
                         acc \o GetBytes(d.data, calcOffset(ts[1], ts[2]) + 2, bytes),
                         seen \cup {ts})

\* readFile after findFile returned f
ReadEntry(d, f) ==
  LET Read(r) == [found |-> TRUE, bytes |-> r.bytes, err |-> r.err]
  IN IF ~f.found
       THEN [found |-> FALSE, bytes |-> << >>,
             err |-> IF f.err = "hang" THEN "hang" ELSE "exc"]
     ELSE Read(ReadChain(d, << GetByte(d.data, f.eo + 1), GetByte(d.data, f.eo + 2) >>,
                         << >>, {}))

readFile(d, filename) == ReadEntry(d, findFile(d, filename))

\* extractFile after findFile returned f and readFile returned r; written:
\* whether the output file could be opened, written and closed
ExtractEntry(d, f, r, written) ==
  IF ~f.found THEN [d |-> d, ret |-> FALSE, err |-> IF f.err = "hang" THEN "hang" ELSE "exc"]
  ELSE IF TypeCode(d.data, f.eo) \notin { PRG, SEQ, USR, REL }
    THEN [d |-> d, ret |-> FALSE, err |-> "exc"]
  ELSE IF r.err # "none" THEN [d |-> d, ret |-> FALSE, err |-> r.err]
  ELSE [d |-> d, ret |-> written, err |-> "none"]

\* extractFile: [d, ret, err]
extractFile(d, filename, written) ==
  ExtractEntry(d, findFile(d, filename), readFile(d, filename), written)

\* ------------------------------------------------------------------------
\* Side sectors (REL): struct sideSector { next; block; recordsize;
\* sideSectors[6]; chain[120]; }
\* ------------------------------------------------------------------------
\* allocateSideSector: [d, ok, track, sector]
allocateSideSector(d) ==
  LET Cleared(a) ==
        IF ~a.ok THEN a
        ELSE [a EXCEPT !.d.data = WriteAt(a.d.data, calcOffset(a.track, a.sector),
                                          Repeat(0, SECTOR_SIZE))]
  IN Cleared(findAndAllocateFreeSector(d))

\* createSideSectors: [d, ok, exc, sideSectorList].  The for loop is run on
\* the record s = [d, ok, exc, sideSector, sideSectorList, block, sideCount,
\* chainCount] of its local variables: sideSector is the byte offset of the
\* side sector being filled, sideSectorList the offsets pushed on the list; ok
\* is cleared by return std::nullopt, exc set by the throw.
\* the else branch after allocateSideSector returned a.  The list is not
\* extended here, so sideSectorList keeps its one element.  With
\* sideCount = 6 the store to first->sideSectors[sideCount] is past the
\* array; it lands on the bytes that follow in the struct, chain[0].
NextSideSector(s, a, ts, record_size, first) ==
  IF ~a.ok THEN [s EXCEPT !.d = a.d, !.ok = FALSE]
  ELSE
    LET new == calcOffset(a.track, a.sector)
        here == << a.track, a.sector >>
        d1 == WriteAt(a.d.data, first + 4 + 2 * s.sideCount, here)
        d2 == WriteAt(d1, s.sideSectorList[Len(s.sideSectorList)], here)
        d3 == SetByte(d2, new + 2, s.block % 256)
        d4 == SetByte(d3, new + 3, record_size)
        d5 == WriteAt(d4, new + 16, ts)
        d6 == WriteAt(d5, new, << 0, 16 + 2 >>)
    IN [s EXCEPT !.d = [a.d EXCEPT !.data = d6], !.sideSector = new,
                 !.block = s.block + 1, !.sideCount = s.sideCount + 1,
                 !.chainCount = 1]

\* one pass of the loop, on the data sector ts
SidePass(s, ts, record_size, first) ==
  IF ~s.ok \/ s.exc THEN s
  ELSE IF s.chainCount < SIDE_SECTOR_CHAIN_SZ
    THEN LET d1 == WriteAt(s.d.data, s.sideSector + 16 + 2 * s.chainCount, ts)
             d2 == SetByte(d1, s.sideSector + 1, (GetByte(d1, s.sideSector + 1) + 2) % 256)
         IN [s EXCEPT !.d = [s.d EXCEPT !.data = d2], !.chainCount = s.chainCount + 1]
  ELSE IF Len(s.sideSectorList) >= SIDE_SECTOR_ENTRY_SIZE
    THEN [s EXCEPT !.exc = TRUE]
  ELSE NextSideSector(s, allocateSideSector(s.d), ts, record_size, first)

\* the passes on allocatedSectors[lo..hi], run as two halves
RECURSIVE SideLoop(_, _, _, _, _, _)
SideLoop(s, allocatedSectors, lo, hi, record_size, first) ==
  IF ~s.ok \/ s.exc \/ lo > hi THEN s
  ELSE IF lo = hi THEN SidePass(s, allocatedSectors[lo], record_size, first)
  ELSE SideLoop(SideLoop(s, allocatedSectors, lo, (lo + hi) \div 2, record_size, first),
                allocatedSectors, (lo + hi) \div 2 + 1, hi, record_size, first)

SideDone(s) == [d |-> s.d, ok |-> s.ok, exc |-> s.exc, sideSectorList |-> s.sideSectorList]

\* the first side sector a is set up, then the loop runs
FirstSideSector(a, allocatedSectors, record_size) ==
  IF ~a.ok THEN [d |-> a.d, ok |-> FALSE, exc |-> FALSE, sideSectorList |-> << >>]
  ELSE SideDone(SideLoop(
         [d |-> [a.d EXCEPT !.data =
                   LET sideSector == calcOffset(a.track, a.sector)
                       d1 == SetByte(a.d.data, sideSector + 3, record_size)
                       d2 == WriteAt(d1, sideSector, << 0, 16 >>)
                       d3 == SetByte(d2, sideSector + 2, 0)
                   IN WriteAt(d3, sideSector + 4, << a.track, a.sector >>)],
          ok |-> TRUE, exc |-> FALSE, sideSector |-> calcOffset(a.track, a.sector),
          sideSectorList |-> << calcOffset(a.track, a.sector) >>,
          block |-> 1, sideCount |-> 1, chainCount |-> 0],
         allocatedSectors, 1, Len(allocatedSectors), record_size,
         calcOffset(a.track, a.sector)))


createSideSectors(d, allocatedSectors, record_size) ==
  FirstSideSector(allocateSideSector(d), allocatedSectors, record_size)


\* ------------------------------------------------------------------------
\* Directory manager
\* ------------------------------------------------------------------------
\* allocateNewDirectorySector that leaves the new sector's link header (0,0)
allocateNewDirectorySectorZeroLink(d, cur) ==
  LET Linked(a) ==
        IF ~a.ok THEN a
        ELSE LET d1 == WriteAt(a.d.data, calcOffset(cur[1], cur[2]),
                               << a.track, a.sector >>)
                 d2 == WriteAt(d1, calcOffset(a.track, a.sector), Repeat(0, SECTOR_SIZE))
             IN [a EXCEPT !.d.data = d2]
  IN Linked(findAndAllocateFreeSector(d))

\* allocateNewDirectorySector: [d, ok, track, sector]; cur is the sector
\* whose link header receives the new sector's address
allocateNewDirectorySector(d, cur) ==
  LET Linked(a) ==
        IF ~a.ok THEN a
        ELSE LET d1 == WriteAt(a.d.data, calcOffset(cur[1], cur[2]),
                               << a.track, a.sector >>)
                 d2 == WriteAt(d1, calcOffset(a.track, a.sector),
                               << 0, 255 >> \o Repeat(0, SECTOR_SIZE - 2))
             IN [a EXCEPT !.d.data = d2]
  IN Linked(findAndAllocateFreeSector(d))

\* findEmptyDirectorySlot: [d, found, eo, err]
RECURSIVE findEmptyDirectorySlot(_, _, _)
findEmptyDirectorySlot(d, ts, seen) ==
  IF ts[1] = 0 THEN [d |-> d, found |-> FALSE, eo |-> 0, err |-> "none"]
  ELSE IF ~isValidTrackSector(d, ts[1], ts[2])
    THEN [d |-> d, found |-> FALSE, eo |-> 0, err |-> "exc"]
  ELSE IF ts \in seen THEN [d |-> d, found |-> FALSE, eo |-> 0, err |-> "hang"]
  ELSE
    LET empty == { i \in 0..(FILES_PER_SECTOR - 1) : ~Closed(d.data, EntryOff(ts, i)) }
        next == Link(d.data, ts)
    IN IF empty # {}
         THEN [d |-> d, found |-> TRUE,
               eo |-> EntryOff(ts, CHOOSE x \in empty : \A y \in empty : x <= y),
               err |-> "none"]
       ELSE IF \/ next[1] = 0
               \/ next[1] > d.TRACKS
               \/ next[2] > SECTORS_PER_TRACK[next[1]]
         THEN LET Grown(a) ==
                    IF ~a.ok THEN [d |-> d, found |-> FALSE, eo |-> 0, err |-> "exc"]
                    ELSE findEmptyDirectorySlot(a.d, << a.track, a.sector >>,
                                                seen \cup {ts})
              IN Grown(allocateNewDirectorySector(d, ts))
       ELSE findEmptyDirectorySlot(d, next, seen \cup {ts})

\* createDirectoryEntry: [d, ret, err]; type is the file-type byte
\* replace and fileSize of the entry: bytes 26..29
EntryTail(start, allocatedSectors) ==
  << start[1] % 256, start[2] % 256, Len(allocatedSectors) % 256,
     (Len(allocatedSectors) \div 256) % 256 >>

\* the REL branch of createDirectoryEntry after createSideSectors returned sl
EntryWithSide(sl, eo, tail, record_size) ==
  IF ~sl.ok \/ Len(sl.sideSectorList) < 1
    THEN [d |-> sl.d, ret |-> FALSE, err |-> "exc"]
  ELSE LET first == sl.sideSectorList[1]
           d2 == WriteAt(sl.d.data, eo + 19,
                         << GetByte(sl.d.data, first + 4),
                            GetByte(sl.d.data, first + 5),
                            record_size >>)
           d3 == WriteAt(d2, eo + 26, tail)
       IN [d |-> [sl.d EXCEPT !.data = d3], ret |-> TRUE, err |-> "none"]

\* createDirectoryEntry from "create side sectors for .REL files" on; e1 is
\* the disk after file_type, start and fileName are written at offset eo
EntryNamed(e1, eo, type, start, allocatedSectors, record_size) ==
  IF type % 16 = REL
    THEN EntryWithSide(createSideSectors(e1, allocatedSectors, record_size), eo,
                       EntryTail(start, allocatedSectors), record_size)
  ELSE [d |-> [e1 EXCEPT !.data =
                 WriteAt(WriteAt(e1.data, eo + 19, << 0, 0, 0 >>), eo + 26,
                         EntryTail(start, allocatedSectors))],
        ret |-> TRUE, err |-> "none"]

\* createDirectoryEntry after findEmptyDirectorySlot returned fileEntry
EntryInto(fileEntry, filename, type, start, allocatedSectors, record_size) ==
  IF fileEntry.err # "none"
    THEN [d |-> fileEntry.d, ret |-> FALSE, err |-> fileEntry.err]
  ELSE IF ~fileEntry.found THEN [d |-> fileEntry.d, ret |-> FALSE, err |-> "none"]
  ELSE EntryNamed([fileEntry.d EXCEPT !.data =
                     WriteAt(fileEntry.d.data, fileEntry.eo,
                             << type, start[1] % 256, start[2] % 256 >>
                               \o PadName(SubSeq(filename, 1,
                                                 Min(Len(filename), FILE_NAME_SZ))))],
                  fileEntry.eo, type, start, allocatedSectors, record_size)

createDirectoryEntry(d, filename, type, start, allocatedSectors, record_size) ==
  EntryInto(findEmptyDirectorySlot(d, << DIRECTORY_TRACK, DIRECTORY_SECTOR >>, {}),
            filename, type, start, allocatedSectors, record_size)

\* addFile: [d, ret, err]
\* addFile after writeFileDataToSectors returned w
FileWritten(w, filename, type, start, recordSize) ==
  IF w.exc THEN [d |-> w.d, ret |-> FALSE, err |-> "exc"]
  ELSE createDirectoryEntry(w.d, filename, type, start, w.allocatedSectors,
                            recordSize % 256)

\* addFile after findAndAllocateFreeSector returned a
FirstSector(d, a, filename, type, fileData, recordSize) ==
  IF ~a.ok THEN [d |-> d, ret |-> FALSE, err |-> "exc"]
  ELSE FileWritten(writeFileDataToSectors(a.d, << a.track, a.sector >>, fileData, 0, << >>),
                   filename, type, << a.track, a.sector >>, recordSize)

addFile(d, filename, type, fileData, recordSize) ==
  IF Len(filename) = 0 \/ Len(fileData) = 0 THEN [d |-> d, ret |-> FALSE, err |-> "exc"]
  ELSE FirstSector(d, findAndAllocateFreeSector(d), filename, type, fileData, recordSize)

\* the chain walk of removeFile: [d, err].  The while loop is run on the record
\* f = [d, ts, seen, err, done] of its local variables: ts is (track, sector),
\* seen the sectors it has freed; done is set when the loop is left, err is
\* "exc" when getTrackSectorPtr threw and "hang" when the walk came back to a
\* sector it had visited (the loop of the code never ends)
FreePass(f) ==
  IF f.done THEN f
  ELSE IF f.ts[1] = 0 THEN [f EXCEPT !.done = TRUE]
  ELSE IF ~isValidTrackSector(f.d, f.ts[1], f.ts[2]) THEN [f EXCEPT !.err = "exc", !.done = TRUE]
  ELSE IF f.ts \in f.seen THEN [f EXCEPT !.err = "hang", !.done = TRUE]
  ELSE [f EXCEPT !.d = freeSector(f.d, f.ts[1], f.ts[2]).d, !.ts = Link(f.d.data, f.ts),
                 !.seen = f.seen \cup { f.ts }]

\* n passes of the loop, run as two halves
RECURSIVE FreePasses(_, _)
FreePasses(f, n) ==
  IF f.done \/ n = 0 THEN f
  ELSE IF n = 1 THEN FreePass(f)
  ELSE FreePasses(FreePasses(f, n \div 2), n - (n \div 2))

FreeDone(f) == [d |-> f.d, err |-> f.err]

\* a walk that visits no sector twice is over after one pass per sector of the
\* image and one more
FreeChain(d, ts, seen) ==
  FreeDone(FreePasses([d |-> d, ts |-> ts, seen |-> seen, err |-> "none", done |-> FALSE],
                      DiskSize(d.TRACKS) \div SECTOR_SIZE + 1))

\* the pairs of a trackSector array of n entries at byte offset o, up to the
\* first entry whose track is 0
PairsUntilZero(data, o, n) ==
  LET zero == { i \in 0..(n - 1) : GetByte(data, o + 2 * i) = 0 }
      cnt == IF zero = {} THEN n ELSE CHOOSE x \in zero : \A y \in zero : x <= y
  IN [i \in 1..cnt |-> << GetByte(data, o + 2 * (i - 1)), GetByte(data, o + 2 * (i - 1) + 1) >>]

\* the sectors of list freed from position k on
RECURSIVE FreeAll(_, _, _)
FreeAll(d, list, k) ==
  IF k > Len(list) THEN d
  ELSE FreeAll(freeSector(d, list[k][1], list[k][2]).d, list, k + 1)

\* the image with the side sectors of the REL entry at offset eo freed
SideSectorsFreed(d, eo) ==
  IF TypeCode(d.data, eo) = REL /\ GetByte(d.data, eo + 19) # 0
    THEN FreeAll(d, PairsUntilZero(d.data,
                                   calcOffset(GetByte(d.data, eo + 19),
                                              GetByte(d.data, eo + 20)) + 4,
                                   SIDE_SECTOR_ENTRY_SIZE), 1)
  ELSE d

\* removeFile that frees the side sectors of a REL file as well
RemoveEntryWithSideSectors(d, f) ==
  LET Freed(c, eo) ==
        IF c.err = "hang" THEN [d |-> c.d, ret |-> FALSE, err |-> "hang"]
        ELSE IF c.err = "exc" THEN [d |-> c.d, ret |-> FALSE, err |-> "none"]
        ELSE [d |-> [c.d EXCEPT !.data = WriteAt(c.d.data, eo, Repeat(0, DIR_ENTRY_BYTES))],
              ret |-> TRUE, err |-> "none"]
  IN IF f.err = "hang" THEN [d |-> d, ret |-> FALSE, err |-> "hang"]
     ELSE IF ~f.found THEN [d |-> d, ret |-> FALSE, err |-> "none"]
     ELSE Freed(FreeChain(SideSectorsFreed(d, f.eo),
                          << GetByte(d.data, f.eo + 1), GetByte(d.data, f.eo + 2) >>, {}),
                f.eo)

\* removeFile that frees the chain and leaves the directory entry as it is
RemoveEntryKeepingEntry(d, f) ==
  LET Freed(c) ==
        IF c.err = "hang" THEN [d |-> c.d, ret |-> FALSE, err |-> "hang"]
        ELSE IF c.err = "exc" THEN [d |-> c.d, ret |-> FALSE, err |-> "none"]
        ELSE [d |-> c.d, ret |-> TRUE, err |-> "none"]
  IN IF f.err = "hang" THEN [d |-> d, ret |-> FALSE, err |-> "hang"]
     ELSE IF ~f.found THEN [d |-> d, ret |-> FALSE, err |-> "none"]
     ELSE Freed(FreeChain(d, << GetByte(d.data, f.eo + 1), GetByte(d.data, f.eo + 2) >>, {}))

\* removeFile: [d, ret, err]; the exceptions are caught inside
\* removeFile after findFile returned f
RemoveEntry(d, f) ==
  LET Freed(c, eo) ==
        IF c.err = "hang" THEN [d |-> c.d, ret |-> FALSE, err |-> "hang"]
        ELSE IF c.err = "exc" THEN [d |-> c.d, ret |-> FALSE, err |-> "none"]
        ELSE [d |-> [c.d EXCEPT !.data = WriteAt(c.d.data, eo, Repeat(0, DIR_ENTRY_BYTES))],
              ret |-> TRUE, err |-> "none"]
  IN IF f.err = "hang" THEN [d |-> d, ret |-> FALSE, err |-> "hang"]
     ELSE IF ~f.found THEN [d |-> d, ret |-> FALSE, err |-> "none"]
     ELSE Freed(FreeChain(d, << GetByte(d.data, f.eo + 1), GetByte(d.data, f.eo + 2) >>, {}),
                f.eo)

removeFile(d, filename) == RemoveEntry(d, findFile(d, filename))

\* renameFile that does not check what findFile returned and writes through
\* the entry pointer of the first slot
renameFileUnchecked(d, oldfilename, newfilename) ==
  [d |-> [d EXCEPT !.data =
            WriteAt(d.data,
                    (IF findFile(d, oldfilename).found THEN findFile(d, oldfilename).eo
                     ELSE EntryOff(<< DIRECTORY_TRACK, DIRECTORY_SECTOR >>, 0)) + 3,
                    PadName(SubSeq(newfilename, 1, Min(Len(newfilename), FILE_NAME_SZ))))],
   ret |-> TRUE, err |-> "none"]

\* renameFile: [d, ret, err]
renameFile(d, oldfilename, newfilename) ==
  LET len == Min(Len(newfilename), FILE_NAME_SZ)
      Found(f) ==
        IF ~f.found
          THEN [d |-> d, ret |-> FALSE, err |-> IF f.err = "hang" THEN "hang" ELSE "exc"]
        ELSE [d |-> [d EXCEPT !.data = WriteAt(d.data, f.eo + 3,
                                               PadName(SubSeq(newfilename, 1, len)))],
              ret |-> TRUE, err |-> "none"]
  IN Found(findFile(d, oldfilename))

\* lockfile: [d, ret, err]
lockfile(d, filename, lock) ==
  LET Locked(b) == IF lock THEN BitSet(b, 6) ELSE BitReset(b, 6)
      Found(f) ==
        IF ~f.found
          THEN [d |-> d, ret |-> FALSE, err |-> IF f.err = "hang" THEN "hang" ELSE "exc"]
        ELSE [d |-> [d EXCEPT !.data = SetByte(d.data, f.eo, Locked(GetByte(d.data, f.eo)))],
              ret |-> TRUE, err |-> "none"]
  IN Found(findFile(d, filename))


\* operator== on two vectors of directoryEntry
SameEntries(a, b) ==
  /\ Len(a) = Len(b)
  /\ \A k \in 1..Len(a) : EntryFields(a[k]) = EntryFields(b[k])

\* the entries files[from..to] laid out one after the other
RECURSIVE Flatten(_, _, _)
Flatten(files, from, to) ==
  IF from > to THEN << >> ELSE files[from] \o Flatten(files, from + 1, to)

\* the write loop of reorderDirectory(std::vector<directoryEntry>&): [d, err]
RECURSIVE ReorderLoop(_, _, _, _)
ReorderLoop(d, ts, files, index) ==
  IF ts[1] = 0 \/ index >= Len(files) THEN [d |-> d, err |-> "none"]
  ELSE IF ~isValidTrackSector(d, ts[1], ts[2]) THEN [d |-> d, err |-> "exc"]
  ELSE
    LET o == calcOffset(ts[1], ts[2])
        len == Min(FILES_PER_SECTOR, Len(files) - index)
        Written(d2) == ReorderLoop([d EXCEPT !.data = d2], Link(d2, ts), files, index + len)
    IN Written(WriteAt(WriteAt(d.data, o, Repeat(0, SECTOR_SIZE)), o + 2,
                       Flatten(files, index + 1, index + len)))

\* reorderDirectory(std::vector<directoryEntry>& files): [d, ret, err]
\* what a rewrite of the directory returns: r = [d, err]
Rewritten(r) == [d |-> r.d, ret |-> r.err = "none", err |-> r.err]

\* reorderDirectory(files) that rewrites the directory without comparing
ReorderListedUncompared(d, currentFiles, files) ==
  IF currentFiles.err # "none" THEN [d |-> d, ret |-> FALSE, err |-> currentFiles.err]
  ELSE Rewritten(ReorderLoop(d, << DIRECTORY_TRACK, DIRECTORY_SECTOR >>, files, 0))

\* reorderDirectory(files) after directory() returned currentFiles
ReorderListed(d, currentFiles, files) ==
  IF currentFiles.err # "none" THEN [d |-> d, ret |-> FALSE, err |-> currentFiles.err]
  ELSE IF SameEntries(currentFiles.files, files) THEN [d |-> d, ret |-> FALSE, err |-> "none"]
  ELSE Rewritten(ReorderLoop(d, << DIRECTORY_TRACK, DIRECTORY_SECTOR >>, files, 0))

reorderDirectoryEntries(d, files) == ReorderListed(d, directory(d), files)

\* step 1 and 2 of reorderDirectory(const std::vector<std::string>&): the
\* entries named in fileOrder first, then the remaining ones
RECURSIVE PickOrder(_, _, _, _)
PickOrder(files, fileOrder, k, reorderedFiles) ==
  IF k > Len(fileOrder) THEN reorderedFiles \o files
  ELSE LET hits == { i \in 1..Len(files) : Trim(EntryName(files[i])) = fileOrder[k] }
       IN IF hits = {} THEN PickOrder(files, fileOrder, k + 1, reorderedFiles)
          ELSE LET i == CHOOSE x \in hits : \A y \in hits : x <= y
               IN PickOrder(SubSeq(files, 1, i - 1) \o SubSeq(files, i + 1, Len(files)),
                            fileOrder, k + 1, Append(reorderedFiles, files[i]))

\* reorderDirectory(const std::vector<std::string>& fileOrder): [d, ret, err]
\* step 3 of reorderDirectory(fileOrder)
ReorderPicked(d, files, reorderedFiles) ==
  IF SameEntries(files, reorderedFiles) THEN [d |-> d, ret |-> FALSE, err |-> "none"]
  ELSE reorderDirectoryEntries(d, reorderedFiles)

\* reorderDirectory(fileOrder) after directory() returned dir
ReorderNamed(d, dir, fileOrder) ==
  IF dir.err # "none" THEN [d |-> d, ret |-> FALSE, err |-> dir.err]
  ELSE ReorderPicked(d, dir.files, PickOrder(dir.files, fileOrder, 1, << >>))

reorderDirectory(d, fileOrder) == ReorderNamed(d, directory(d), fileOrder)

\* movefileFirst: [d, ret, err]
\* movefileFirst after std::find_if returned position `it` (0: not found)
MoveFound(d, files, it) ==
  IF it = 0 \/ it = 1 THEN [d |-> d, ret |-> FALSE, err |-> "none"]
  ELSE reorderDirectoryEntries(d,
         [k \in 1..Len(files) |->
            IF k = 1 THEN files[it] ELSE IF k = it THEN files[1] ELSE files[k]])

\* movefileFirst after directory() returned dir
MoveListed(d, dir, file) ==
  LET First(hits) == IF hits = {} THEN 0 ELSE CHOOSE x \in hits : \A y \in hits : x <= y
  IN IF dir.err # "none" THEN [d |-> d, ret |-> FALSE, err |-> dir.err]
     ELSE MoveFound(d, dir.files,
                    First({ i \in 1..Len(dir.files) :
                              Trim(EntryName(dir.files[i])) = file }))

movefileFirst(d, file) == MoveListed(d, directory(d), file)

\* step 3 of compactDirectory: free the directory sectors from ts on
RECURSIVE FreeRest(_, _)
FreeRest(d, ts) ==
  LET Freed(next, d1) ==
        IF next[1] = 0 THEN [d |-> d1, err |-> "none"]
        ELSE IF ~isValidTrackSector(d, next[1], next[2]) THEN [d |-> d1, err |-> "exc"]
        ELSE FreeRest(d1, next)
  IN Freed(Link(d.data, ts),
           IF ts[1] # DIRECTORY_TRACK \/ ts[2] # DIRECTORY_SECTOR
             THEN freeSector(d, ts[1], ts[2]).d ELSE d)

\* step 2 of compactDirectory: [d, err]
RECURSIVE CompactLoop(_, _, _, _)
\* e2: the disk after the sector ts is cleared and refilled with the entries
\* up to position index
RECURSIVE CompactRefilled(_, _, _, _)
CompactRefilled(e2, ts, files, index) ==
  LET next == Link(e2.data, ts)
  IN IF index >= Len(files) THEN FreeRest(e2, ts)
     ELSE IF next[1] = 0 THEN [d |-> e2, err |-> "none"]
     ELSE IF ~isValidTrackSector(e2, next[1], next[2]) THEN [d |-> e2, err |-> "exc"]
     ELSE CompactLoop(e2, next, files, index)

CompactLoop(d, ts, files, index) ==
  LET o == calcOffset(ts[1], ts[2])
      len == Min(FILES_PER_SECTOR, Len(files) - index)
  IN CompactRefilled([d EXCEPT !.data =
                        WriteAt(WriteAt(d.data, o, Repeat(0, SECTOR_SIZE)), o + 2,
                                Flatten(files, index + 1, index + len))],
                     ts, files, index + len)

\* compactDirectory that writes the first entry behind the others
CompactListedRotating(d, dir) ==
  IF dir.err # "none" THEN [d |-> d, ret |-> FALSE, err |-> dir.err]
  ELSE IF Len(dir.files) = 0 THEN [d |-> d, ret |-> FALSE, err |-> "none"]
  ELSE Rewritten(CompactLoop(d, << DIRECTORY_TRACK, DIRECTORY_SECTOR >>,
                             Tail(dir.files) \o << Head(dir.files) >>, 0))

\* compactDirectory: [d, ret, err]
\* compactDirectory after directory() returned dir
CompactListed(d, dir) ==
  IF dir.err # "none" THEN [d |-> d, ret |-> FALSE, err |-> dir.err]
  ELSE IF Len(dir.files) = 0 THEN [d |-> d, ret |-> FALSE, err |-> "none"]
  ELSE Rewritten(CompactLoop(d, << DIRECTORY_TRACK, DIRECTORY_SECTOR >>, dir.files, 0))

compactDirectory(d) == CompactListed(d, directory(d))


\* ------------------------------------------------------------------------
\* Integrity verifier
\* ------------------------------------------------------------------------
\* sectorUsage is std::array<std::array<bool, 21>, TRACKS_40>
InUsageArray(ts) == ts[1] >= 1 /\ ts[1] <= TRACKS_40 /\ ts[2] >= 0 /\ ts[2] < 21

Range(seq) == { seq[i] : i \in 1..Len(seq) }

\* the sectors one live entry marks in sectorUsage: [used, err]
EntryUsage(d, eo) ==
  LET \* the side-sector group of a REL file: list holds the side sectors,
      \* bad the positions of the invalid ones, good the ones before the first
      \* invalid one, chains the data sectors they name
      Marked(start, bad, good, chains) ==
        [used |-> {start} \cup Range(good) \cup chains,
         err |-> IF \E c \in chains : ~InUsageArray(c) THEN "ub"
                 ELSE IF bad # {} THEN "exc" ELSE "none"]
      Chains(start, bad, good) ==
        Marked(start, bad, good,
               UNION { Range(PairsUntilZero(d.data,
                                            calcOffset(good[k][1], good[k][2]) + 16,
                                            SIDE_SECTOR_CHAIN_SZ)) : k \in 1..Len(good) })
      Good(start, list, bad) ==
        Chains(start, bad,
               IF bad = {} THEN list
               ELSE SubSeq(list, 1, (CHOOSE x \in bad : \A y \in bad : x <= y) - 1))
      Group(start, list) ==
        Good(start, list,
             { k \in 1..Len(list) : ~isValidTrackSector(d, list[k][1], list[k][2]) })
      Side(start, side) ==
        IF ~isValidTrackSector(d, side[1], side[2]) THEN [used |-> {start}, err |-> "exc"]
        ELSE Group(start, PairsUntilZero(d.data, calcOffset(side[1], side[2]) + 4,
                                         SIDE_SECTOR_ENTRY_SIZE))
      \* the data chain of any other file
      Stopped(start, c, stop) ==
        [used |-> {start} \cup Range(c.secs),
         err |-> IF c.err = "exc" /\ ~InUsageArray(stop) THEN "ub" ELSE c.err]
      Chain(start, c) ==
        Stopped(start, c,
                IF Len(c.secs) = 0 THEN start ELSE Link(d.data, c.secs[Len(c.secs)]))
      From(start) ==
        IF ~InUsageArray(start) THEN [used |-> {}, err |-> "ub"]
        ELSE IF TypeCode(d.data, eo) = REL
          THEN Side(start, << GetByte(d.data, eo + 19), GetByte(d.data, eo + 20) >>)
        ELSE Chain(start, ChainFrom(d, start, << >>))
  IN From(<< GetByte(d.data, eo + 1), GetByte(d.data, eo + 2) >>)

\* step 1 and 2 of verifyBAMIntegrity: [used, err]
\* the usage of the entries at the offsets slots, one record per entry
EntriesUsage(d, slots) == [k \in 1..Len(slots) |-> EntryUsage(d, slots[k])]

SectorUsage(d) ==
  LET Marked(w, per, bad) ==
        [used |-> {<< DIRECTORY_TRACK, BAM_SECTOR >>} \cup Range(w.secs)
                    \cup UNION { per[k].used : k \in 1..Len(per) },
         err |-> IF bad # {} THEN per[CHOOSE x \in bad : \A y \in bad : x <= y].err
                 ELSE w.err]
      Entries(w, per) == Marked(w, per, { k \in 1..Len(per) : per[k].err # "none" })
      Walked(w) == Entries(w, EntriesUsage(d, LiveSlots(d, w.secs)))
  IN Walked(DirWalk(d))

\* the free count step 3 expects for a track
CorrectFreeCount(used, track) ==
  Cardinality({ s \in 0..(SECTORS_PER_TRACK[track] - 1) : << track, s >> \notin used })

\* the errors step 3 finds
BamErrors(d, used) ==
  \/ \E track \in 1..d.TRACKS : \E sector \in 0..(SECTORS_PER_TRACK[track] - 1) :
       BamTest(d.data, track - 1, sector) = (<< track, sector >> \in used)
  \/ \E track \in 1..d.TRACKS : BamFree(d.data, track - 1) # CorrectFreeCount(used, track)

\* the fixes of step 3 on the tracks track..TRACKS
RECURSIVE FixFrom(_, _, _)
FixFrom(d, used, track) ==
  IF track > d.TRACKS THEN d
  ELSE
    LET o == bamtrack(track - 1)
        byte(j) ==
          LET RECURSIVE Val(_)
              Val(b) ==
                IF b > 7 THEN 0
                ELSE (IF (IF 8 * j + b < SECTORS_PER_TRACK[track]
                            THEN << track, 8 * j + b >> \notin used
                            ELSE BitTest(GetByte(d.data, o + 1 + j), b))
                        THEN Pow2(b) ELSE 0) + Val(b + 1)
          IN Val(0)
        entry == << CorrectFreeCount(used, track), byte(0), byte(1), byte(2) >>
    IN FixFrom([d EXCEPT !.data = WriteAt(d.data, o, entry)], used, track + 1)

\* verifyBAMIntegrity that logs the errors and fixes none
verifyBAMIntegrityLogOnly(d, fix) ==
  LET Scanned(u) ==
        IF u.err # "none" THEN [d |-> d, ret |-> FALSE, err |-> u.err]
        ELSE [d |-> d, ret |-> ~BamErrors(d, u.used), err |-> "none"]
  IN Scanned(SectorUsage(d))

\* verifyBAMIntegrity: [d, ret, err]
verifyBAMIntegrity(d, fix) ==
  LET Scanned(u) ==
        IF u.err # "none" THEN [d |-> d, ret |-> FALSE, err |-> u.err]
        ELSE IF ~BamErrors(d, u.used) THEN [d |-> d, ret |-> TRUE, err |-> "none"]
        ELSE [d |-> IF fix THEN FixFrom(d, u.used, 1) ELSE d, ret |-> FALSE,
              err |-> "none"]
  IN Scanned(SectorUsage(d))


\* ------------------------------------------------------------------------
\* Host files: save, load, validateD64
\* ------------------------------------------------------------------------
\* a host file: whether it can be opened for reading, its size in bytes and,
\* when the size is that of an image, its bytes by sector
NoFile == [readable |-> FALSE, size |-> 0, data |-> << >>]

ImageFile(d) == [readable |-> TRUE, size |-> DiskSize(d.TRACKS), data |-> d.data]

\* save: [d, ret, err, host]; opened: whether the output file could be
\* opened.  h is the host file before the call
save(d, opened, h) ==
  IF ~opened THEN [d |-> d, ret |-> FALSE, err |-> "exc", host |-> h]
  ELSE [d |-> d, ret |-> TRUE, err |-> "none", host |-> ImageFile(d)]

\* validateD64: [ok, exc]
validateD64(d) ==
  IF << GetByte(d.data, BamOffset), GetByte(d.data, BamOffset + 1) >>
       # << DIRECTORY_TRACK, DIRECTORY_SECTOR >>
    THEN [ok |-> FALSE, exc |-> TRUE]
  ELSE IF ~(\/ Link(d.data, << DIRECTORY_TRACK, DIRECTORY_SECTOR >>)[1] = DIRECTORY_TRACK
            \/ Link(d.data, << DIRECTORY_TRACK, DIRECTORY_SECTOR >>) = << 0, 255 >>)
    THEN [ok |-> FALSE, exc |-> TRUE]
  ELSE [ok |-> TRUE, exc |-> FALSE]

\* load after validateD64 returned v on the loaded image d; the exception is
\* caught inside
Validated(d, v) ==
  IF v.exc THEN [d |-> d, ret |-> FALSE, err |-> "none"]
  ELSE IF ~v.ok THEN [d |-> formatDisk(d, NEW_DISK_NAME), ret |-> TRUE, err |-> "none"]
  ELSE [d |-> d, ret |-> TRUE, err |-> "none"]

\* load after init_disk left d and the file's bytes were read into the buffer
Loaded(d) == Validated(d, validateD64(d))

\* load: [d, ret, err]; the exceptions are caught inside
load(d, h) ==
  IF ~h.readable THEN [d |-> d, ret |-> FALSE, err |-> "none"]
  ELSE IF h.size # D64_DISK35_SZ /\ h.size # D64_DISK40_SZ
    THEN [d |-> d, ret |-> FALSE, err |-> "none"]
  ELSE Loaded([init_disk(IF h.size = D64_DISK35_SZ THEN TRACKS_35 ELSE TRACKS_40)
                 EXCEPT !.data = h.data])

\* ------------------------------------------------------------------------
\* State
\* ------------------------------------------------------------------------
VARIABLES
  TRACKS,           \* 35 or 40 (disktype)
  data,             \* the image buffer
  lastSectorUsed,   \* the per-track cursor
  last,             \* the last call and what it returned
  ops,              \* number of calls made since the start state
  allocations,      \* what findAndAllocateFreeSector returned, in order
  allOk,            \* every call so far returned success
  relRemoved,       \* removeFile was called on a REL file
  rawWritten,       \* writeSector was called
  host              \* the host file at the path given to save and load

vars == << TRACKS, data, lastSectorUsed, last, ops, allocations, allOk, relRemoved,
           rawWritten, host >>

Disk == [TRACKS |-> TRACKS, data |-> data, lastSectorUsed |-> lastSectorUsed]

DiskNext == [TRACKS |-> TRACKS', data |-> data', lastSectorUsed |-> lastSectorUsed']

NoCall == [op |-> "construct", name |-> << >>, payload |-> << >>, type |-> 0,
           ts |-> << 0, 0 >>, ret |-> TRUE, err |-> "none"]

Call(op, name, payload, type, ts, ret, err) ==
  [op |-> op, name |-> name, payload |-> payload, type |-> type, ts |-> ts,
   ret |-> ret, err |-> err]

\* the engine state after a call
SetDisk(d) ==
  /\ TRACKS' = d.TRACKS
  /\ data' = d.data
  /\ lastSectorUsed' = d.lastSectorUsed

\* ---- bounds and inputs --------------------------------------------------
MaxOps == 2

NameA == << 65 >>
NameB == << 66 >>
NameF(k) == << 70, 48 + k >>

\* a payload of len bytes, byte i holding (fill + i) mod 256
Payload(len, fill) == [i \in 1..len |-> (fill + i) % 256]

\* c64FileType(d64FileTypes t): closed = 1, locked = 0, type = t
FileTypeByte(t) == 128 + t

\* ---- reachable start states --------------------------------------------
\* a sequence of calls, each of which succeeds, applied to a disk
AddFileStep(name, type, payload) ==
  [op |-> "addFile", name |-> name, type |-> type, payload |-> payload]
\* addFile of a PRG file that takes the given number of sectors
AddStep(name, sectors) ==
  AddFileStep(name, FileTypeByte(PRG), Payload((sectors - 1) * (SECTOR_SIZE - 2) + 1, 1))
RemoveStep(name) == [op |-> "removeFile", name |-> name]
CompactStep == [op |-> "compactDirectory"]
ReorderStep(fileOrder) == [op |-> "reorderDirectory", fileOrder |-> fileOrder]

ApplyStep(d, c) ==
  CASE c.op = "addFile" -> addFile(d, c.name, c.type, c.payload, 0)
    [] c.op = "removeFile" -> removeFile(d, c.name)
    [] c.op = "compactDirectory" -> compactDirectory(d)
    [] c.op = "reorderDirectory" -> reorderDirectory(d, c.fileOrder)

RECURSIVE RunScript(_, _)
RunScript(d, script) ==
  IF script = << >> THEN d
  ELSE LET Applied(r) == IF ~r.ret \/ r.err # "none" THEN d
                         ELSE RunScript(r.d, Tail(script))
       IN Applied(ApplyStep(d, Head(script)))

NameN(k) == << 78, 48 + k >>
NameE(k) == << 69, 48 + k >>
NameG == << 71 >>
NameT == << 84 >>
NameV == << 86 >>
NameW == << 87 >>
NameX == << 88 >>

\* Sixteen successful calls minus the last two.  Track 18 is filled, the
\* entry "E4" is read from slot 7 of (18,1) while (18,2) links to (18,12) and
\* is compacted into slot 6, and "G" then occupies (18,12) -> (18,3) -> (18,2).
StaleLinkScript ==
  << AddStep(NameN(1), 1), AddStep(NameX, 3),
     AddStep(NameN(2), 1), AddStep(NameN(3), 12),
     AddStep(NameE(1), 1), AddStep(NameE(2), 1),
     AddStep(NameE(3), 1), AddStep(NameE(4), 1),
     RemoveStep(NameN(2)), AddStep(NameN(2), 1),
     RemoveStep(NameE(1)), CompactStep,
     RemoveStep(NameX), AddStep(NameG, 3) >>


\* Twenty-five successful calls after which the second directory sector
\* (18,13) is also the sector the chain of "B" runs into from (18,2).
FreedDirectoryScript ==
  << AddStep(NameN(1), 2), AddStep(NameN(2), 1),
     AddStep(NameN(3), 1), AddStep(NameN(4), 1),
     AddStep(NameN(5), 12),
     RemoveStep(NameN(1)), RemoveStep(NameN(4)),
     AddStep(NameX, 2),
     AddStep(NameE(1), 1), AddStep(NameE(2), 1),
     AddStep(NameE(3), 1), AddStep(NameE(4), 1),
     RemoveStep(NameE(3)), CompactStep,
     RemoveStep(NameX), AddStep(NameB, 1),
     RemoveStep(NameN(2)), RemoveStep(NameN(3)),
     AddStep(NameT, 3),
     AddStep(NameE(5), 1), AddStep(NameE(6), 1),
     ReorderStep(<< NameE(6) >>),
     RemoveStep(NameT), AddStep(NameV, 1), AddStep(NameW, 1) >>

SeedFiles == 7

\* addFile("F1", SEQ, 509 bytes) and addFile("F2"), ..., addFile("Fn") of one
\* PRG sector each
SeedScript(n) ==
  [k \in 1..n |->
     IF k = 1 THEN AddFileStep(NameF(k), FileTypeByte(SEQ), Payload(509, 0))
     ELSE AddFileStep(NameF(k), FileTypeByte(PRG), Payload(3, 10 * k))]

\* the 35-track disks the scripts end on
ScriptDisks(scripts) == { RunScript(init_disk(TRACKS_35), s) : s \in scripts }

FreshDisks == { init_disk(TRACKS_35), init_disk(TRACKS_40) }

StartDisks == FreshDisks \cup ScriptDisks({ SeedScript(SeedFiles) })

\* the engine starts as one of S, the host file as one of H
InitWith(S, H) ==
  /\ \E d \in S : /\ TRACKS = d.TRACKS
                  /\ data = d.data
                  /\ lastSectorUsed = d.lastSectorUsed
  /\ last = NoCall
  /\ ops = 0
  /\ allocations = << >>
  /\ allOk = TRUE
  /\ relRemoved = FALSE
  /\ rawWritten = FALSE
  /\ host \in H

InitFrom(S) == InitWith(S, { NoFile })

\* ------------------------------------------------------------------------
\* Actions: one per public operation
\* ------------------------------------------------------------------------
\* a call that left the engine as r.d and the host file as h
StepHost(r, call, h) ==
  /\ ops < MaxOps
  /\ SetDisk(r.d)
  /\ last' = call
  /\ ops' = ops + 1
  /\ allOk' = (allOk /\ call.ret /\ call.err = "none")
  /\ rawWritten' = (rawWritten \/ call.op = "writeSector")
  /\ host' = h

Step(r, call) == StepHost(r, call, host)

\* a call that returned r = [d, ret, err]
Returned(r, op, name, payload, type) ==
  Step(r, Call(op, name, payload, type, << 0, 0 >>, r.ret, r.err))

\* a call on the sector ts that returned r = [d, ok, exc]
ReturnedOk(r, op, payload, ts) ==
  Step(r, Call(op, << >>, payload, 0, ts, r.ok, IF r.exc THEN "exc" ELSE "none"))

\* findAndAllocateFreeSector returned r = [d, ok, track, sector]
Allocated(r) ==
  /\ SetDisk(r.d)
  /\ last' = Call("findAndAllocateFreeSector", << >>, << >>, 0,
                  << r.track, r.sector >>, r.ok, "none")
  /\ allocations' = IF r.ok THEN Append(allocations, << r.track, r.sector >>)
                    ELSE allocations
  /\ allOk' = (allOk /\ r.ok)

FormatDisk(name) ==
  /\ Step([d |-> formatDisk(Disk, name)],
          Call("formatDisk", name, << >>, 0, << 0, 0 >>, TRUE, "none"))
  /\ allocations' = << >>
  /\ UNCHANGED relRemoved

WriteSector(t, s, bytes) ==
  /\ ReturnedOk(writeSector(Disk, t, s, bytes), "writeSector", bytes, << t, s >>)
  /\ UNCHANGED << allocations, relRemoved >>

AllocateSector(t, s) ==
  /\ ReturnedOk(allocateSector(Disk, t, s), "allocateSector", << >>, << t, s >>)
  /\ UNCHANGED << allocations, relRemoved >>

FreeSector(t, s) ==
  /\ ReturnedOk(freeSector(Disk, t, s), "freeSector", << >>, << t, s >>)
  /\ UNCHANGED << allocations, relRemoved >>

AddFile(name, type, payload, recordSize) ==
  /\ Returned(addFile(Disk, name, type, payload, recordSize), "addFile", name, payload, type)
  /\ UNCHANGED << allocations, relRemoved >>

RemoveFile(name) ==
  LET IsRel(f) == f.found /\ TypeCode(data, f.eo) = REL
  IN /\ Returned(removeFile(Disk, name), "removeFile", name, << >>, 0)
     /\ relRemoved' = (relRemoved \/ IsRel(findFile(Disk, name)))
     /\ UNCHANGED allocations

RenameFile(old, new) ==
  /\ Returned(renameFile(Disk, old, new), "renameFile", old, new, 0)
  /\ UNCHANGED << allocations, relRemoved >>

LockFile(name, lock) ==
  /\ Returned(lockfile(Disk, name, lock), "lockfile", name, << >>, 0)
  /\ UNCHANGED << allocations, relRemoved >>

ReorderDirectory(fileOrder) ==
  /\ Returned(reorderDirectory(Disk, fileOrder), "reorderDirectory", << >>, fileOrder, 0)
  /\ UNCHANGED << allocations, relRemoved >>

ReorderDirectoryEntries(files) ==
  /\ Returned(reorderDirectoryEntries(Disk, files), "reorderDirectoryEntries", << >>, files, 0)
  /\ UNCHANGED << allocations, relRemoved >>

MoveFileFirst(name) ==
  /\ Returned(movefileFirst(Disk, name), "movefileFirst", name, << >>, 0)
  /\ UNCHANGED << allocations, relRemoved >>

CompactDirectory ==
  /\ Returned(compactDirectory(Disk), "compactDirectory", << >>, << >>, 0)
  /\ UNCHANGED << allocations, relRemoved >>

VerifyBAMIntegrity(fix) ==
  /\ Returned(verifyBAMIntegrity(Disk, fix), "verifyBAMIntegrity", << >>, << >>, 0)
  /\ UNCHANGED << allocations, relRemoved >>


\* readFile returned r = [found, bytes, err]
ReadReturned(r, name) ==
  Returned([d |-> Disk, ret |-> r.found /\ r.err = "none", err |-> r.err], "readFile",
           name, r.bytes, 0)

ReadFile(name) ==
  /\ ReadReturned(readFile(Disk, name), name)
  /\ UNCHANGED << allocations, relRemoved >>

ExtractFile(name, written) ==
  /\ Returned(extractFile(Disk, name, written), "extractFile", name, << >>, 0)
  /\ UNCHANGED << allocations, relRemoved >>

CalcOffset(t, s) ==
  /\ ReturnedOk(calcOffsetChecked(Disk, t, s), "calcOffset", << >>, << t, s >>)
  /\ UNCHANGED << allocations, relRemoved >>

\* a read that returned r = [d, ok, exc, value]
ReadReturnedOk(r, op, ts) == ReturnedOk(r, op, r.value, ts)

ReadByte(t, s, byteoffset) ==
  /\ ReadReturnedOk(readByte(Disk, t, s, byteoffset), "readByte", << t, s >>)
  /\ UNCHANGED << allocations, relRemoved >>

ReadSector(t, s) ==
  /\ ReadReturnedOk(readSector(Disk, t, s), "readSector", << t, s >>)
  /\ UNCHANGED << allocations, relRemoved >>

WriteByte(t, s, byteoffset, value) ==
  /\ ReturnedOk(writeByte(Disk, t, s, byteoffset, value), "writeByte", << value >>,
                << t, s >>)
  /\ UNCHANGED << allocations, relRemoved >>

Save(opened) ==
  /\ StepHost(save(Disk, opened, host),
              Call("save", << >>, << >>, 0, << 0, 0 >>, save(Disk, opened, host).ret,
                   save(Disk, opened, host).err),
              save(Disk, opened, host).host)
  /\ UNCHANGED << allocations, relRemoved >>

Load ==
  /\ Returned(load(Disk, host), "load", << >>, << >>, 0)
  /\ UNCHANGED << allocations, relRemoved >>

FindAndAllocateFreeSector ==
  /\ ops < MaxOps
  /\ ops' = ops + 1
  /\ Allocated(findAndAllocateFreeSector(Disk))
  /\ UNCHANGED << relRemoved, rawWritten, host >>

\* one pass of the loop "call findAndAllocateFreeSector until it fails"
AllocateUntilFull ==
  /\ ~(last.op = "findAndAllocateFreeSector" /\ ~last.ret)
  /\ Allocated(findAndAllocateFreeSector(Disk))
  /\ UNCHANGED << ops, relRemoved, rawWritten, host >>

\* ------------------------------------------------------------------------
\* Specifications
\* ------------------------------------------------------------------------
\* a newly constructed engine of either type, then allocation until full
InitAlloc == InitFrom(FreshDisks)

NextAlloc == AllocateUntilFull

SpecAlloc == InitAlloc /\ [][NextAlloc]_vars

\* ---- inputs of the file-level specifications -----------------------------
FileNames == { NameA, NameB, NameF(1) }

\* (file type, record size) as passed to addFile
FileKinds == { << FileTypeByte(PRG), 0 >>, << FileTypeByte(USR), 0 >>,
               << FileTypeByte(REL), 64 >> }

Payloads == { Payload(3, 7), Payload(255, 100) }

FileOrders == { << NameB >>, << NameB, NameA >> }

\* file-level operations from a constructed or an already used disk
InitFiles ==
  InitFrom(FreshDisks \cup ScriptDisks({ SeedScript(SeedFiles), StaleLinkScript,
                                         FreedDirectoryScript }))

NextFiles ==
  \/ \E n \in FileNames, k \in FileKinds, p \in Payloads : AddFile(n, k[1], p, k[2])
  \/ \E n \in FileNames : RemoveFile(n)
  \/ \E n \in FileNames, m \in FileNames : RenameFile(n, m)
  \/ \E n \in FileNames, l \in BOOLEAN : LockFile(n, l)
  \/ \E o \in FileOrders : ReorderDirectory(o)
  \/ \E n \in FileNames : MoveFileFirst(n)
  \/ CompactDirectory

SpecFiles == InitFiles /\ [][NextFiles]_vars

\* addFile and removeFile only, from a disk that only addFile has touched
InitAddRemove == InitFrom(StartDisks)

NextAddRemove ==
  \/ \E n \in FileNames, k \in FileKinds, p \in Payloads : AddFile(n, k[1], p, k[2])
  \/ \E n \in FileNames : RemoveFile(n)

SpecAddRemove == InitAddRemove /\ [][NextAddRemove]_vars

\* ---- inputs of the BAM-level specifications -------------------------------
\* valid and invalid coordinates, the two protected sectors among them
Sectors == { << 18, 0 >>, << 18, 1 >>, << 18, 11 >>, << 17, 0 >>, << 36, 0 >>, << 18, 19 >> }

BamFileNames == { NameA, NameF(1) }

BamFileKinds == { << FileTypeByte(PRG), 0 >>, << FileTypeByte(REL), 64 >> }

InitBam == InitFrom(StartDisks)

\* the operations that change the BAM
NextBam ==
  \/ FormatDisk(NameA)
  \/ \E ts \in Sectors : AllocateSector(ts[1], ts[2])
  \/ \E ts \in Sectors : FreeSector(ts[1], ts[2])
  \/ FindAndAllocateFreeSector
  \/ \E n \in BamFileNames, k \in BamFileKinds, p \in Payloads : AddFile(n, k[1], p, k[2])
  \/ \E n \in BamFileNames : RemoveFile(n)
  \/ CompactDirectory
  \/ VerifyBAMIntegrity(TRUE)

SpecBam == InitBam /\ [][NextBam]_vars

\* a sector image whose link header names the BAM sector
LinkToBamSector ==
  << DIRECTORY_TRACK, BAM_SECTOR >> \o Repeat(0, SECTOR_SIZE - 2)

\* the 16 bytes at the file-name offset of the third 32-byte slot of a sector
\* laid over the BAM sector of a newly constructed disk
BamSlotName(tracks) ==
  GetBytes(init_disk(tracks).data, EntryOff(<< DIRECTORY_TRACK, BAM_SECTOR >>, 2) + 3,
           FILE_NAME_SZ)

OldNames == { NameA, BamSlotName(TRACKS_35) }

NewNames == { NameB, << 65, 65, 65, 65, 65 >> }

\* the operations of NextBam, renameFile, and writeSector on a sector other
\* than the BAM sector
NextPublic ==
  \/ NextBam
  \/ \E n \in OldNames, m \in NewNames : RenameFile(n, m)
  \/ WriteSector(DIRECTORY_TRACK, DIRECTORY_SECTOR, LinkToBamSector)

SpecPublic == InitBam /\ [][NextPublic]_vars

\* ------------------------------------------------------------------------
\* Properties
\* ------------------------------------------------------------------------
ValidSectors(tracks) ==
  { ts \in (1..tracks) \X (0..20) : ts[2] < SECTORS_PER_TRACK[ts[1]] }

AllocatedSectors(d) ==
  { ts \in ValidSectors(d.TRACKS) : ~BamTest(d.data, ts[1] - 1, ts[2]) }

\* C7: successive findAndAllocateFreeSector calls on a fresh disk never
\* return a sector twice; the returned sector was free before the call and is
\* allocated after it, and no other sector's BAM bit changes.
C7_AllocationsUnique ==
  [][ (last'.op = "findAndAllocateFreeSector" /\ last'.ret /\ allocations' # allocations)
        => /\ last'.ts \notin Range(allocations)
           /\ last'.ts \in ValidSectors(TRACKS)
           /\ BamTest(data, last'.ts[1] - 1, last'.ts[2])
           /\ ~BamTest(data', last'.ts[1] - 1, last'.ts[2])
           /\ \A ts \in ValidSectors(TRACKS) \ {last'.ts} :
                BamTest(data', ts[1] - 1, ts[2]) = BamTest(data, ts[1] - 1, ts[2]) ]_vars

\* C7 witness: every sector of a 35-track image has been handed out
C7_Witness ==
  /\ TRACKS = TRACKS_35
  /\ Len(allocations) > 600
  /\ AllocatedSectors(Disk) = ValidSectors(TRACKS_35)

\* C8 as claimed: when findAndAllocateFreeSector first fails on a disk that
\* started fresh, the number of successful calls equals the value
\* getFreeSectorCount() had before the first call.
C8_Original ==
  (last.op = "findAndAllocateFreeSector" /\ ~last.ret)
    => Len(allocations) = getFreeSectorCount(init_disk(TRACKS))

\* C8 amended: the number of successful calls equals getFreeSectorCount()
\* before the first call plus the free count of the directory track (17),
\* that is 681 on a 35-track and 766 on a 40-track disk.
C8_SuccessesUntilFull ==
  (last.op = "findAndAllocateFreeSector" /\ ~last.ret)
    => /\ Len(allocations) = getFreeSectorCount(init_disk(TRACKS))
                               + BamFree(init_disk(TRACKS).data, DIRECTORY_TRACK - 1)
       /\ Len(allocations) = IF TRACKS = TRACKS_35 THEN 681 ELSE 766

\* C8 witness: the first failing call on a 40-track disk
C8_Witness ==
  /\ last.op = "findAndAllocateFreeSector"
  /\ ~last.ret
  /\ TRACKS = TRACKS_40
  /\ Len(allocations) = 766

\* C9: a newly constructed engine has an empty listing, the name "NEW DISK",
\* a BAM that verifies, exactly (18,0) and (18,1) allocated, and 664 (35
\* tracks) or 749 (40 tracks) free sectors.
C9_FreshDisk ==
  (last.op = "construct")
    => /\ directory(Disk).files = << >>
       /\ directory(Disk).err = "none"
       /\ diskname(Disk) = NEW_DISK_NAME
       /\ verifyBAMIntegrity(Disk, FALSE).ret
       /\ AllocatedSectors(Disk) = { << DIRECTORY_TRACK, BAM_SECTOR >>,
                                     << DIRECTORY_TRACK, DIRECTORY_SECTOR >> }
       /\ getFreeSectorCount(Disk) = IF TRACKS = TRACKS_35 THEN 664 ELSE 749

\* C9 witness: a newly constructed 40-track engine
C9_Witness ==
  /\ last.op = "construct"
  /\ TRACKS = TRACKS_40
  /\ getFreeSectorCount(Disk) = 749


\* the names of the listing as renameFile and reorderDirectory compare them
ListedNames(d) ==
  LET files == directory(d).files
  IN [k \in 1..Len(files) |-> Trim(EntryName(files[k]))]

\* the chain that starts at the start sector of the live entry at offset eo
EntryChain(d, eo) ==
  ChainFrom(d, << GetByte(d.data, eo + 1), GetByte(d.data, eo + 2) >>, << >>)

\* C1: readFile called right after a successful addFile(name, T, P) returns
\* exactly the bytes of P.
C1_AddThenRead ==
  (last.op = "addFile" /\ last.ret /\ last.err = "none")
    => LET r == readFile(Disk, last.name)
       IN r.found /\ r.err = "none" /\ r.bytes = last.payload

C3_BamVerifies ==
  (allOk /\ ~relRemoved)
    => LET v == verifyBAMIntegrity(Disk, FALSE)
       IN v.ret /\ v.err = "none"

\* C4: no two live directory entries have the same trimmed filename; an
\* addFile for a name that belongs to a live entry is rejected.
C4_UniqueNames ==
  allOk => \A i, j \in 1..Len(ListedNames(Disk)) :
             i # j => ListedNames(Disk)[i] # ListedNames(Disk)[j]

C6_ChainsTerminate ==
  allOk => /\ DirWalk(Disk).err = "none"
           /\ \A eo \in Range(LiveSlots(Disk, DirWalk(Disk).secs)) :
                EntryChain(Disk, eo).err = "none"

\* before with one entry inserted at position k gives after (fields compared
\* as operator== of directoryEntry compares them)
InsertedAt(before, after, k) ==
  /\ Len(after) = Len(before) + 1
  /\ \A i \in 1..Len(before) :
       EntryFields(before[i]) = EntryFields(after[IF i < k THEN i ELSE i + 1])

\* C10: every successful addFile adds exactly one entry to the listing of
\* directory() and leaves every entry listed before in it with unchanged
\* fields.
C10_AddOneEntry ==
  [][ (last'.op = "addFile" /\ last'.ret /\ last'.err = "none"
         /\ directory(Disk).err = "none")
        => /\ directory(DiskNext).err = "none"
           /\ \E k \in 1..Len(directory(DiskNext).files) :
                InsertedAt(directory(Disk).files, directory(DiskNext).files, k) ]_vars


\* ---- directory-level specification ---------------------------------------
\* number of files of the seed whose directory takes two sectors
LongSeedFiles == 9

DirNames == { NameA, NameB, NameF(2), NameF(LongSeedFiles), NameG }

DirOrders == { << NameF(LongSeedFiles) >>, << NameB, NameF(2) >> }

DirFileKinds == { << FileTypeByte(PRG), 0 >> }

\* the sixteen successful calls after which the chain of "G" is
\* (18,12) -> (18,3) -> (18,2) -> (18,12)
CyclicChainScript ==
  StaleLinkScript \o << AddStep(NameA, 1), ReorderStep(<< NameA >>) >>

\* addFile, removeFile, reorderDirectory, movefileFirst and compactDirectory
\* from a constructed disk, from disks with one and with two directory
\* sectors, and from the disk the calls of CyclicChainScript leave
InitDir ==
  InitFrom(FreshDisks \cup ScriptDisks({ SeedScript(SeedFiles), SeedScript(LongSeedFiles),
                                         CyclicChainScript }))

NextDir ==
  \/ \E n \in { NameA, NameB }, k \in DirFileKinds, p \in Payloads : AddFile(n, k[1], p, k[2])
  \/ \E n \in DirNames : RemoveFile(n)
  \/ \E o \in DirOrders : ReorderDirectory(o)
  \/ \E n \in DirNames : MoveFileFirst(n)
  \/ CompactDirectory

SpecDir == InitDir /\ [][NextDir]_vars

\* the listing `files` without its entry number k
WithoutEntry(files, k) ==
  [i \in 1..(Len(files) - 1) |-> IF i < k THEN files[i] ELSE files[i + 1]]

\* the position in the listing of the live slot at offset eo
ListedAt(d, eo) ==
  CHOOSE k \in 1..Len(LiveSlots(d, DirWalk(d).secs)) : LiveSlots(d, DirWalk(d).secs)[k] = eo

\* what C11 says of removeFile(name) on the disk d whose result is the disk
\* e, the return value ret and the outcome err; eo is the slot findFile
\* resolves name to
RemovedFrom(d, e, ret, err, eo) ==
  /\ ret
  /\ err = "none"
  /\ \A ts \in Range(EntryChain(d, eo).secs) : BamTest(e.data, ts[1] - 1, ts[2])
  /\ \A t \in 1..d.TRACKS :
       BamFree(e.data, t - 1)
         = BamFree(d.data, t - 1)
             + Cardinality({ ts \in Range(EntryChain(d, eo).secs) :
                               ts[1] = t /\ ~BamTest(d.data, ts[1] - 1, ts[2]) })
  /\ GetBytes(e.data, eo, DIR_ENTRY_BYTES - 2) = Repeat(0, DIR_ENTRY_BYTES - 2)
  /\ directory(e).files = WithoutEntry(directory(d).files, ListedAt(d, eo))

\* C11: removeFile(name) on a live non-REL file returns true, marks every
\* sector of the file's chain free in the BAM, each track's free count rising
\* by one per freed sector, and zeroes the file's directory slot, so that the
\* entry is no longer listed.
C11_RemoveFrees ==
  [][ ( /\ last'.op = "removeFile"
        /\ findFile(Disk, last'.name).found
        /\ TypeCode(data, findFile(Disk, last'.name).eo) # REL )
        => RemovedFrom(Disk, DiskNext, last'.ret, last'.err,
                       findFile(Disk, last'.name).eo) ]_vars

\* the listings a and b hold the same entries in the same order (fields
\* compared as operator== of directoryEntry compares them)
SameListing(a, b) ==
  /\ Len(a) = Len(b)
  /\ \A i \in 1..Len(a) : EntryFields(a[i]) = EntryFields(b[i])

\* the live entries of d fill the slots of the directory chain from slot 0 of
\* (18,1) on without a gap
Packed(d) ==
  LiveSlots(d, DirWalk(d).secs)
    = [k \in 1..Len(LiveSlots(d, DirWalk(d).secs)) |->
         EntryOff(DirWalk(d).secs[((k - 1) \div FILES_PER_SECTOR) + 1],
                  (k - 1) % FILES_PER_SECTOR)]

\* C12: compactDirectory loses and reorders nothing: directory() after the
\* call returns the entries it returned before in the same order, stored
\* without gaps 8 per sector from (18,1) on, also for more than 8 entries.
C12_CompactKeepsEntries ==
  [][ (last'.op = "compactDirectory" /\ directory(Disk).err = "none")
        => /\ directory(DiskNext).err = "none"
           /\ SameListing(directory(Disk).files, directory(DiskNext).files)
           /\ Packed(DiskNext) ]_vars

\* the sectors of the directory chain of d behind the ones its live entries
\* fill when they are packed 8 per sector
SpareDirectorySectors(d) ==
  LET secs == DirWalk(d).secs
      keep == (Len(directory(d).files) + FILES_PER_SECTOR - 1) \div FILES_PER_SECTOR
  IN { secs[k] : k \in (keep + 1)..Len(secs) }

\* C13: after compactDirectory, every sector of the former directory chain
\* that no longer holds an entry is marked free in the BAM and is no longer
\* part of the chain, while (18,1) stays allocated and stays the head of the
\* chain.
C13_CompactFreesSectors ==
  [][ (last'.op = "compactDirectory" /\ last'.ret /\ directory(Disk).err = "none")
        => /\ \A ts \in SpareDirectorySectors(Disk) :
                /\ BamTest(data', ts[1] - 1, ts[2])
                /\ ts \notin Range(DirWalk(DiskNext).secs)
           /\ ~BamTest(data', DIRECTORY_TRACK - 1, DIRECTORY_SECTOR)
           /\ Len(DirWalk(DiskNext).secs) >= 1
           /\ DirWalk(DiskNext).secs[1] = << DIRECTORY_TRACK, DIRECTORY_SECTOR >> ]_vars

\* the entries of the listing whose trimmed name is the k-th of names, then
\* those of the later names
RECURSIVE NamedEntries(_, _, _)
NamedEntries(files, names, k) ==
  IF k > Len(names) THEN << >>
  ELSE SelectSeq(files, LAMBDA e : Trim(EntryName(e)) = names[k])
         \o NamedEntries(files, names, k + 1)

\* the listing C14 describes: the named entries in the order of names, then
\* the other entries in their previous order
NamedFirst(files, names) ==
  NamedEntries(files, names, 1)
    \o SelectSeq(files, LAMBDA e : \A k \in 1..Len(names) : Trim(EntryName(e)) # names[k])

\* C14: reorderDirectory(names) leaves the listing made of the live entries
\* whose trimmed names occur in names, in the order given, followed by the
\* remaining live entries in their previous order, for any number of entries.
C14_ReorderByNames ==
  [][ (last'.op = "reorderDirectory" /\ directory(Disk).err = "none")
        => /\ directory(DiskNext).err = "none"
           /\ SameListing(directory(DiskNext).files,
                          NamedFirst(directory(Disk).files, last'.payload)) ]_vars

\* C15: a reorderDirectory or movefileFirst call that changes the order keeps
\* the directory chain intact: the same sectors are linked in the same order
\* with the same link headers after the call as before it.
C15_ReorderKeepsChain ==
  [][ (last'.op \in { "reorderDirectory", "movefileFirst" } /\ last'.ret
         /\ DirWalk(Disk).err = "none")
        => /\ DirWalk(DiskNext).secs = DirWalk(Disk).secs
           /\ \A ts \in Range(DirWalk(Disk).secs) : Link(data', ts) = Link(data, ts) ]_vars

\* ---- specification of addFile on a disk that runs out of sectors ----------
\* n successive findAndAllocateFreeSector calls
RECURSIVE AllocateTimes(_, _)
AllocateTimes(d, n) ==
  IF d.TRACKS = 0 \/ n = 0 THEN d
  ELSE IF n = 1 THEN findAndAllocateFreeSector(d).d
  ELSE AllocateTimes(AllocateTimes(d, n \div 2), n - (n \div 2))

\* the disk d after findAndAllocateFreeSector calls that leave `left` sectors
NearlyFull(d, left) ==
  AllocateTimes(d, Cardinality(ValidSectors(d.TRACKS) \ AllocatedSectors(d)) - left)

\* largest number of free sectors of a start state
MaxLeft == 2

\* a new disk and a disk whose first directory sector holds eight entries,
\* with 0..MaxLeft free sectors
InitFull ==
  InitFrom({ NearlyFull(d, left) :
               d \in { init_disk(TRACKS_35) }
                       \cup ScriptDisks({ SeedScript(FILES_PER_SECTOR) }),
               left \in 0..MaxLeft })

NextFull ==
  \E n \in FileNames, k \in FileKinds, p \in Payloads : AddFile(n, k[1], p, k[2])

SpecFull == InitFull /\ [][NextFull]_vars

\* C16: when addFile fails because no free sector can be allocated, an error
\* is reported, every sector that was allocated stays allocated, and the
\* directory listing is the listing before the call.
C16_FailedAddKeepsListing ==
  [][ (last'.op = "addFile" /\ (~last'.ret \/ last'.err # "none")
         /\ directory(Disk).err = "none")
        => /\ ~last'.ret
           /\ AllocatedSectors(Disk) \subseteq AllocatedSectors(DiskNext)
           /\ directory(DiskNext).err = "none"
           /\ SameListing(directory(Disk).files, directory(DiskNext).files) ]_vars

\* ---- specification of the lookups by name ----------------------------------
\* names with and without a live entry in the start states
LookupNames == { NameA, NameB, NameF(2), NameG }

\* the operations that resolve a name, and addFile
NextLookup ==
  \/ \E n \in { NameA, NameB }, p \in Payloads : AddFile(n, FileTypeByte(PRG), p, 0)
  \/ \E n \in LookupNames : RemoveFile(n)
  \/ \E n \in LookupNames, m \in { NameA, NameB } : RenameFile(n, m)
  \/ \E n \in LookupNames, l \in BOOLEAN : LockFile(n, l)
  \/ \E n \in LookupNames : ReadFile(n)
  \/ \E n \in LookupNames, w \in BOOLEAN : ExtractFile(n, w)

SpecLookup == InitDir /\ [][NextLookup]_vars

\* C17: lockfile, renameFile, removeFile, extractFile and readFile called
\* with a name that matches no live entry report an error, removeFile by
\* returning false and the others by throwing, and leave every byte of the
\* image unchanged.
C17_NotFoundChangesNothing ==
  [][ ( /\ last'.op \in { "lockfile", "renameFile", "removeFile", "extractFile", "readFile" }
        /\ ~findFile(Disk, last'.name).found )
        => /\ ~last'.ret
           /\ last'.err = IF last'.op = "removeFile" THEN "none" ELSE "exc"
           /\ DiskNext = Disk ]_vars

\* C17 witness: renameFile of a name without an entry has thrown on a disk
\* that holds files
C17_Witness ==
  /\ last.op = "renameFile"
  /\ last.err = "exc"
  /\ ~findFile(Disk, last.name).found
  /\ Len(directory(Disk).files) > 0

\* ---- specification of the raw sector operations ---------------------------
\* the last valid and the first invalid sector of each speed zone, tracks
\* below 1, tracks a 35-track disk lacks, and tracks no disk has
RawSectors ==
  { << 1, 20 >>, << 1, 21 >>, << 18, 18 >>, << 18, 19 >>, << 25, 17 >>, << 25, 18 >>,
    << 35, 16 >>, << 35, 17 >>, << 36, 0 >>, << 40, 16 >>, << 41, 0 >>, << 0, 0 >>,
    << 1, -1 >>, << -1, 0 >> }

\* sector images of 255, 256 and 257 bytes
RawPayloads ==
  { Repeat(7, SECTOR_SIZE - 1), Repeat(7, SECTOR_SIZE), Repeat(7, SECTOR_SIZE + 1) }

RawOffsets == { 0, SECTOR_SIZE - 1 }

NextRaw ==
  \/ \E ts \in RawSectors : CalcOffset(ts[1], ts[2])
  \/ \E ts \in RawSectors : AllocateSector(ts[1], ts[2])
  \/ \E ts \in RawSectors : FreeSector(ts[1], ts[2])
  \/ \E ts \in RawSectors, o \in RawOffsets : ReadByte(ts[1], ts[2], o)
  \/ \E ts \in RawSectors : ReadSector(ts[1], ts[2])
  \/ \E ts \in RawSectors, b \in RawPayloads : WriteSector(ts[1], ts[2], b)
  \/ \E ts \in RawSectors, o \in RawOffsets : WriteByte(ts[1], ts[2], o, 7)

SpecRaw == InitBam /\ [][NextRaw]_vars

\* track outside 1..track_count or sector outside
\* 0..sectors_per_track[track-1]-1
OutOfRange(tracks, ts) ==
  \/ ts[1] \notin 1..tracks
  \/ ts[2] \notin 0..(SECTORS_PER_TRACK[ts[1]] - 1)

\* C18: for every (track, sector) out of range, calcOffset, allocateSector
\* and freeSector fail with an error, readSector and readByte return an
\* absent value, writeSector and writeByte fail, and writeSector also fails
\* for a payload whose length is not 256; no byte of the image and no cursor
\* changes in any of these cases.
C18_InvalidGeometryRejected ==
  [][ ( /\ last'.op \in { "calcOffset", "allocateSector", "freeSector", "readSector",
                          "readByte", "writeSector", "writeByte" }
        /\ \/ OutOfRange(TRACKS, last'.ts)
           \/ last'.op = "writeSector" /\ Len(last'.payload) # 256 )
        => /\ ~last'.ret
           /\ last'.op \in { "calcOffset", "allocateSector", "freeSector" }
                => last'.err = "exc"
           /\ last'.op \in { "readSector", "readByte" }
                => (last'.err = "none" /\ last'.payload = << >>)
           /\ DiskNext = Disk ]_vars

\* C18 witness: allocateSector(36,0) has thrown on a 35-track disk
C18_Witness ==
  /\ last.op = "allocateSector"
  /\ last.ts = << TRACKS_35 + 1, 0 >>
  /\ TRACKS = TRACKS_35
  /\ last.err = "exc"

\* ---- specification of the sector-chain codec --------------------------------
\* payloads of 1, 253, 254, 255, 508 and 509 bytes
CodecPayloads ==
  { Payload(1, 3), Payload(SECTOR_SIZE - 3, 5), Payload(SECTOR_SIZE - 2, 7),
    Payload(SECTOR_SIZE - 1, 9), Payload(2 * (SECTOR_SIZE - 2), 11),
    Payload(2 * (SECTOR_SIZE - 2) + 1, 13) }

CodecNames == { NameA, NameF(1) }

CodecKinds == { << FileTypeByte(PRG), 0 >>, << FileTypeByte(REL), 64 >> }

NextCodec ==
  \/ \E n \in CodecNames, k \in CodecKinds, p \in CodecPayloads : AddFile(n, k[1], p, k[2])
  \/ \E n \in CodecNames : RemoveFile(n)

SpecCodec == InitFrom(StartDisks) /\ [][NextCodec]_vars

\* the live entry at offset eo of d is stored as C19 says a payload P is
StoredAs(d, eo, P) ==
  LET c == EntryChain(d, eo)
      n == (Len(P) + 253) \div 254
      u == Len(P) - 254 * (n - 1)
  IN /\ c.err = "none"
     /\ Len(c.secs) = n
     /\ \A i \in 1..(n - 1) :
          GetBytes(d.data, calcOffset(c.secs[i][1], c.secs[i][2]) + 2, 254)
            = SubSeq(P, 254 * (i - 1) + 1, 254 * i)
     /\ Link(d.data, c.secs[n]) = << 0, u + 1 >>
     /\ GetBytes(d.data, calcOffset(c.secs[n][1], c.secs[n][2]) + 2, u)
          = SubSeq(P, 254 * (n - 1) + 1, Len(P))

\* the slots that are live in e and were not live in d
NewSlots(d, e) ==
  Range(LiveSlots(e, DirWalk(e).secs)) \ Range(LiveSlots(d, DirWalk(d).secs))

\* C19: a file added with a payload of L >= 1 bytes occupies exactly
\* ceil(L/254) data sectors, every non-terminal sector carries 254 payload
\* bytes and the terminal sector's link header is (0, u+1) with
\* u = L - 254*(ceil(L/254)-1).
C19_ChainLayout ==
  [][ (last'.op = "addFile" /\ last'.ret /\ last'.err = "none")
        => \E eo \in NewSlots(Disk, DiskNext) : StoredAs(DiskNext, eo, last'.payload) ]_vars

\* C19 witness: a file of 255 bytes was added and takes two sectors, the
\* second with the link header (0, 2)
C19_Witness ==
  /\ last.op = "addFile"
  /\ last.ret
  /\ Len(last.payload) = 255
  /\ LET c == EntryChain(Disk, findFile(Disk, last.name).eo)
     IN /\ findFile(Disk, last.name).found
        /\ Len(c.secs) = 2
        /\ Link(data, c.secs[2]) = << 0, 2 >>

\* ---- specification of the side sectors of REL files ------------------------
\* the number of data sectors a payload of len bytes takes
DataSectors(len) == (len + SECTOR_SIZE - 3) \div (SECTOR_SIZE - 2)

\* a payload that fills n - 1 sectors and leaves one byte for the n-th
PayloadOfSectors(n) == Payload((n - 1) * (SECTOR_SIZE - 2) + 1, n)

\* payloads of 1, 120, 121 and 721 data sectors
RelPayloads ==
  { PayloadOfSectors(n) :
      n \in { 1, SIDE_SECTOR_CHAIN_SZ, SIDE_SECTOR_CHAIN_SZ + 1,
              SIDE_SECTOR_ENTRY_SIZE * SIDE_SECTOR_CHAIN_SZ + 1 } }

RelNames == { NameA, NameB }

\* addFile with a long payload: the call record holds the length of the
\* payload in place of its bytes
AddLongFile(name, type, payload, recordSize) ==
  /\ Returned(addFile(Disk, name, type, payload, recordSize), "addFile", name,
              << Len(payload) >>, type)
  /\ UNCHANGED << allocations, relRemoved >>

NextRel == \E n \in RelNames, p \in RelPayloads : AddLongFile(n, FileTypeByte(REL), p, 64)

SpecRel == InitFrom(FreshDisks) /\ [][NextRel]_vars

\* the sectors the call allocated
NewlyAllocated == AllocatedSectors(DiskNext) \ AllocatedSectors(Disk)

\* C20: adding a REL file whose data takes 121 sectors creates exactly 2 side
\* sectors; adding a REL file whose data takes 721 sectors fails and creates
\* no seventh side sector.
C20_SideSectorLimit ==
  [][ (last'.op = "addFile" /\ last'.type = FileTypeByte(REL))
        => /\ (DataSectors(last'.payload[1]) = SIDE_SECTOR_CHAIN_SZ + 1 /\ last'.ret)
                => Cardinality(NewlyAllocated) = DataSectors(last'.payload[1]) + 2
           /\ DataSectors(last'.payload[1]) > SIDE_SECTOR_ENTRY_SIZE * SIDE_SECTOR_CHAIN_SZ
                => /\ ~last'.ret
                   /\ last'.err = "exc"
                   /\ Cardinality(NewlyAllocated)
                        <= DataSectors(last'.payload[1]) + SIDE_SECTOR_ENTRY_SIZE ]_vars

\* the part of C20 on 121 data sectors
C20_TwoSideSectors ==
  [][ (last'.op = "addFile" /\ last'.type = FileTypeByte(REL) /\ last'.ret
         /\ DataSectors(last'.payload[1]) = SIDE_SECTOR_CHAIN_SZ + 1)
        => Cardinality(NewlyAllocated) = DataSectors(last'.payload[1]) + 2 ]_vars

\* ---- specification of save and load -----------------------------------------
\* two files in a new image, then a successful reorderDirectory
ReorderedScript == SeedScript(2) \o << ReorderStep(<< NameF(2) >>) >>

\* d with the bytes at offset replaced
Patched(d, offset, bytes) == [d EXCEPT !.data = WriteAt(d.data, offset, bytes)]

\* host files: none, two of a wrong size, images written by save, and images
\* whose BAM directory start or whose (18,1) link header is another one
HostFiles ==
  { NoFile,
    [readable |-> TRUE, size |-> D64_DISK35_SZ - 1, data |-> << >>],
    [readable |-> TRUE, size |-> D64_DISK40_SZ + SECTOR_SIZE, data |-> << >>] }
  \cup { ImageFile(d) : d \in StartDisks }
  \cup { ImageFile(Patched(init_disk(TRACKS_40), BamOffset, << DIRECTORY_TRACK, 2 >>)),
         ImageFile(Patched(init_disk(TRACKS_35), BamOffset, << DIRECTORY_TRACK - 1, 1 >>)),
         ImageFile(Patched(init_disk(TRACKS_40),
                           calcOffset(DIRECTORY_TRACK, DIRECTORY_SECTOR), << 0, 0 >>)),
         ImageFile(Patched(init_disk(TRACKS_35),
                           calcOffset(DIRECTORY_TRACK, DIRECTORY_SECTOR),
                           << DIRECTORY_TRACK + 1, 0 >>)),
         ImageFile(Patched(init_disk(TRACKS_35),
                           calcOffset(DIRECTORY_TRACK, DIRECTORY_SECTOR),
                           << DIRECTORY_TRACK, 4 >>)) }

HostNames == { NameA, NameF(2) }

InitHost == InitWith(StartDisks \cup ScriptDisks({ ReorderedScript }), HostFiles)

NextHost ==
  \/ \E opened \in BOOLEAN : Save(opened)
  \/ Load
  \/ \E n \in HostNames : AddFile(n, FileTypeByte(PRG), Payload(3, 7), 0)
  \/ \E n \in HostNames : RemoveFile(n)
  \/ \E n \in HostNames : MoveFileFirst(n)

SpecHost == InitHost /\ [][NextHost]_vars

\* the file can be opened and has the size of an image of `tracks` tracks
ImageOf(h, tracks) == h.readable /\ h.size = DiskSize(tracks)

\* what C21 calls an image that does not validate, read from the file's bytes
FailsValidation(h) ==
  \/ << GetByte(h.data, calcOffset(18, 0)), GetByte(h.data, calcOffset(18, 0) + 1) >> # << 18, 1 >>
  \/ /\ GetByte(h.data, calcOffset(18, 1)) # 18
     /\ << GetByte(h.data, calcOffset(18, 1)), GetByte(h.data, calcOffset(18, 1) + 1) >> # << 0, 255 >>

\* C21: load of a host file of 174848 (196608) bytes selects the 35-track
\* (40-track) type; when the loaded bytes do not validate, load ends with a
\* freshly formatted disk named "NEW DISK" of that type.
C21_LoadReformats ==
  [][ \A t \in { TRACKS_35, TRACKS_40 } :
        (last'.op = "load" /\ ImageOf(host, t))
          => /\ TRACKS' = t
             /\ FailsValidation(host) => data' = init_disk(t).data ]_vars

\* the part of C21 on the disk type
C21_LoadSelectsType ==
  [][ \A t \in { TRACKS_35, TRACKS_40 } :
        (last'.op = "load" /\ ImageOf(host, t)) => TRACKS' = t ]_vars

\* C22: whenever load returns a failure indication, the buffer and the track
\* count are the same as before the call.
C22_FailedLoadKeepsEngine ==
  [][ (last'.op = "load" /\ ~last'.ret) => (data' = data /\ TRACKS' = TRACKS) ]_vars

\* the part of C22 on unreadable files and files of a wrong size
C22_RejectedFileKeepsEngine ==
  [][ (last'.op = "load" /\ ~(ImageOf(host, TRACKS_35) \/ ImageOf(host, TRACKS_40)))
        => (~last'.ret /\ data' = data /\ TRACKS' = TRACKS) ]_vars

\* C23: in a state reached through successful public operations, save
\* followed by load reports success and leaves a byte-identical buffer; when
\* verifyBAMIntegrity(false) returned true before, it returns true after.
C23_SaveLoadRoundTrip ==
  [][ (last.op = "save" /\ last.ret /\ allOk /\ last'.op = "load")
        => /\ last'.ret
           /\ data' = data
           /\ TRACKS' = TRACKS
           /\ verifyBAMIntegrity(Disk, FALSE).ret
                => verifyBAMIntegrity(DiskNext, FALSE).ret ]_vars

\* the part of C23 on the buffer
C23_SaveLoadSameBytes ==
  [][ (last.op = "save" /\ last.ret /\ last'.op = "load")
        => (data' = data /\ TRACKS' = TRACKS) ]_vars

\* ---- specification of repeated compactDirectory -----------------------------
\* images with 1 to LongSeedFiles files, with one file removed, with two
\* files removed, and the images left by the long call sequences
CompactScripts ==
  { SeedScript(n) : n \in 1..LongSeedFiles }
  \cup { SeedScript(n) \o << RemoveStep(NameF(k)) >> :
           n \in { 2, FILES_PER_SECTOR, LongSeedFiles }, k \in 1..LongSeedFiles }
  \cup { SeedScript(LongSeedFiles) \o << RemoveStep(NameF(1)), RemoveStep(NameF(k)) >> :
           k \in 2..LongSeedFiles }
  \cup { StaleLinkScript, FreedDirectoryScript }

InitCompact == InitFrom(FreshDisks \cup ScriptDisks(CompactScripts))

\* compactDirectory is the only call
NextCompact == CompactDirectory

SpecCompact == InitCompact /\ [][NextCompact]_vars

\* C24: compactDirectory run twice in a row leaves the image after the second
\* call byte-identical to the image after the first call.
C24_CompactTwice ==
  [][ (last.op = "compactDirectory" /\ last.err = "none" /\ last'.op = "compactDirectory")
        => (data' = data /\ last'.err = "none") ]_vars

\* C24 witness: the second of two compactDirectory calls returned true on an
\* image that lists 8 files
C24_Witness ==
  /\ ops = 2
  /\ last.op = "compactDirectory"
  /\ last.ret
  /\ Len(ListedNames(Disk)) = FILES_PER_SECTOR

\* ---- specification of reorderDirectory with the current order ---------------
\* three files, the first and the third with the same name
DuplicateScript == << AddStep(NameA, 1), AddStep(NameB, 1), AddStep(NameA, 2) >>

\* the first element moved behind the others
Rotated(seq) == IF seq = << >> THEN << >> ELSE Tail(seq) \o << Head(seq) >>

InitOrder ==
  InitFrom(FreshDisks \cup ScriptDisks({ SeedScript(SeedFiles), SeedScript(LongSeedFiles),
                                         ReorderedScript, DuplicateScript }))

\* reorderDirectory is called with the current order and with the rotated one
NextOrder ==
  \/ \E n \in { NameA, NameB } : AddFile(n, FileTypeByte(PRG), Payload(3, 7), 0)
  \/ \E n \in { NameA, NameF(2) } : RemoveFile(n)
  \/ \E o \in { ListedNames(Disk), Rotated(ListedNames(Disk)) } : ReorderDirectory(o)
  \/ \E f \in { directory(Disk).files, Rotated(directory(Disk).files) } :
       ReorderDirectoryEntries(f)

SpecOrder == InitOrder /\ [][NextOrder]_vars

\* C25: when the order requested from reorderDirectory, as a name list or as
\* an entry list, equals the current listing order, the call returns false
\* and changes no byte of the image.
C25_SameOrderNoChange ==
  [][ (/\ directory(Disk).err = "none"
       /\ \/ last'.op = "reorderDirectory" /\ last'.payload = ListedNames(Disk)
          \/ last'.op = "reorderDirectoryEntries" /\ last'.payload = directory(Disk).files)
        => (~last'.ret /\ last'.err = "none" /\ data' = data) ]_vars

\* C25 witness: reorderDirectory was called with the names of a listing of at
\* least two files in their order and returned false
C25_Witness ==
  /\ last.op = "reorderDirectory"
  /\ ~last.ret
  /\ Len(last.payload) >= 2
  /\ last.payload = ListedNames(Disk)

\* ---- specification of the removal of REL files -------------------------------
\* a REL file of one data sector, one of 121 data sectors (two side sectors),
\* and one added to an image with 7 files
RelScripts ==
  { << AddFileStep(NameA, FileTypeByte(REL), Payload(3, 7)) >>,
    << AddFileStep(NameA, FileTypeByte(REL), PayloadOfSectors(SIDE_SECTOR_CHAIN_SZ + 1)) >>,
    SeedScript(SeedFiles) \o << AddFileStep(NameA, FileTypeByte(REL), Payload(255, 100)) >> }

InitRelRemove == InitFrom(FreshDisks \cup ScriptDisks(RelScripts))

NextRelRemove ==
  \/ \E n \in { NameA, NameB }, k \in CodecKinds, p \in Payloads : AddFile(n, k[1], p, k[2])
  \/ \E n \in { NameA, NameB, NameF(2) } : RemoveFile(n)
  \/ VerifyBAMIntegrity(FALSE)

SpecRelRemove == InitRelRemove /\ [][NextRelRemove]_vars

\* the side sectors of the REL entry at offset eo, as its first side sector
\* lists them
SideSectorsOf(d, eo) ==
  IF GetByte(d.data, eo + 19) = 0 THEN {}
  ELSE Range(PairsUntilZero(d.data,
                            calcOffset(GetByte(d.data, eo + 19), GetByte(d.data, eo + 20)) + 4,
                            SIDE_SECTOR_ENTRY_SIZE))

\* the data sectors of the REL entry at offset eo, as its side sectors list them
DataSectorsOf(d, eo) ==
  UNION { Range(PairsUntilZero(d.data, calcOffset(ss[1], ss[2]) + 16, SIDE_SECTOR_CHAIN_SZ)) :
            ss \in SideSectorsOf(d, eo) }

\* the sectors verifyBAMIntegrity reports as incorrectly marked used
MarkedUsedInError(d) == AllocatedSectors(d) \ SectorUsage(d).used

\* C26: removeFile on a REL file frees only the sectors of its data chain and
\* leaves all of its side sectors allocated; verifyBAMIntegrity(false) called
\* afterwards returns false and reports those side sectors as incorrectly
\* marked used.
C26_RelSideSectorsStayAllocated ==
  [][ (/\ last'.op = "removeFile"
       /\ last'.ret
       /\ findFile(Disk, last'.name).found
       /\ TypeCode(data, findFile(Disk, last'.name).eo) = REL)
        => /\ AllocatedSectors(Disk) \ AllocatedSectors(DiskNext)
                = DataSectorsOf(Disk, findFile(Disk, last'.name).eo)
           /\ SideSectorsOf(Disk, findFile(Disk, last'.name).eo) # {}
           /\ SideSectorsOf(Disk, findFile(Disk, last'.name).eo)
                \subseteq AllocatedSectors(DiskNext)
           /\ ~verifyBAMIntegrity(DiskNext, FALSE).ret
           /\ verifyBAMIntegrity(DiskNext, FALSE).err = "none"
           /\ SideSectorsOf(Disk, findFile(Disk, last'.name).eo)
                \subseteq MarkedUsedInError(DiskNext) ]_vars

\* C26 witness: verifyBAMIntegrity(false) was called right after the removal
\* of a REL file with two side sectors, returned false, and two sectors are
\* marked used that nothing uses
C26_Witness ==
  /\ ops = 2
  /\ relRemoved
  /\ last.op = "verifyBAMIntegrity"
  /\ ~last.ret
  /\ last.err = "none"
  /\ Cardinality(MarkedUsedInError(Disk)) = 2

\* ---- specification of the free sector count ----------------------------------
\* the operations that change the BAM, from new images, an image with 7 files
\* and the two images of the long call sequences, whose track 18 is full
SpecCount == InitFiles /\ [][NextBam]_vars

\* the free-count byte of track t (1 based) in the BAM sector: byte 4 * t of
\* the sector for the tracks up to 35, byte 0xAC + 4 * (t - 36) above
FreeCountByte(d, t) ==
  GetByte(d.data, calcOffset(18, 0) + (IF t <= 35 THEN 4 * t ELSE 172 + 4 * (t - 36)))

\* the sum of the free-count bytes of the tracks t..TRACKS except track 18
RECURSIVE FreeBytesFrom(_, _)
FreeBytesFrom(d, t) ==
  IF t > d.TRACKS THEN 0
  ELSE (IF t = 18 THEN 0 ELSE FreeCountByte(d, t)) + FreeBytesFrom(d, t + 1)

\* C27: getFreeSectorCount() equals the sum of the BAM free-count bytes of all
\* tracks except track 18; a successful findAndAllocateFreeSector lowers it by
\* 1 when the returned track is not 18 and leaves it unchanged when it is 18.
C27_FreeCountSum ==
  [][ /\ getFreeSectorCount(DiskNext) = FreeBytesFrom(DiskNext, 1)
      /\ (last'.op = "findAndAllocateFreeSector" /\ last'.ret)
           => getFreeSectorCount(DiskNext)
                = getFreeSectorCount(Disk) - (IF last'.ts[1] = 18 THEN 0 ELSE 1) ]_vars

\* C27 witness: findAndAllocateFreeSector returned a sector of a track other
\* than 18 on an image with files, and the count is the sum of the bytes
C27_Witness ==
  /\ last.op = "findAndAllocateFreeSector"
  /\ last.ret
  /\ last.ts[1] # 18
  /\ Len(ListedNames(Disk)) > 0
  /\ getFreeSectorCount(Disk) = FreeBytesFrom(Disk, 1)

\* ---- specification of the sectors in use ------------------------------------
\* seventeen files that leave `left` free sectors on a 35-track image: sixteen
\* of FillSectors sectors and one that takes the rest of the free sectors of
\* a new image but two; the directory chain gets a second sector with the
\* ninth and a third with the last file
FillSectors == 40

FillFiles == 2 * FILES_PER_SECTOR + 1

FillScript(left) ==
  LET free == Cardinality(ValidSectors(TRACKS_35) \ AllocatedSectors(init_disk(TRACKS_35)))
      rest == free - (FillFiles - 1) * FillSectors - 2
  IN [k \in 1..FillFiles |->
        AddStep(NameF(k), IF k < FillFiles THEN FillSectors ELSE rest - left)]

\* images that addFile and removeFile calls leave on a new image: 7 and 9
\* files, 9 files with the one in slot 7 of (18,1) removed, with the first
\* one removed as well, REL files, two files of one name, and full images
SectorScripts ==
  { SeedScript(SeedFiles), SeedScript(LongSeedFiles),
    SeedScript(LongSeedFiles) \o << RemoveStep(NameF(FILES_PER_SECTOR)) >>,
    SeedScript(LongSeedFiles) \o << RemoveStep(NameF(FILES_PER_SECTOR)), RemoveStep(NameF(1)) >>,
    << AddFileStep(NameA, FileTypeByte(REL), Payload(3, 7)) >>,
    SeedScript(SeedFiles) \o << AddFileStep(NameA, FileTypeByte(REL), Payload(255, 100)) >>,
    DuplicateScript }
  \cup { FillScript(left) : left \in 0..MaxLeft }

SectorNames ==
  { NameA, NameF(1), NameF(FILES_PER_SECTOR), NameF(2 * FILES_PER_SECTOR), NameF(FillFiles) }

InitSectors == InitFrom(FreshDisks \cup ScriptDisks(SectorScripts))

NextSectors ==
  \/ \E k \in CodecKinds, p \in Payloads : AddFile(NameA, k[1], p, k[2])
  \/ \E n \in SectorNames : RemoveFile(n)

SpecSectors == InitSectors /\ [][NextSectors]_vars

\* the sets of sectors in use are named << "bam", 0 >>, << "dir", 0 >> and,
\* for the live entry at offset eo, << "data", eo >> and << "side", eo >>
InUseIndex(d) ==
  LET Named(slots) ==
        << << "bam", 0 >>, << "dir", 0 >> >>
          \o [k \in 1..Len(slots) |-> << "data", slots[k] >>]
          \o [k \in 1..Len(slots) |-> << "side", slots[k] >>]
  IN Named(LiveSlots(d, DirWalk(d).secs))

\* the BAM sector, the directory chain, the data chain of an entry (the link
\* headers followed from its start sector) and the side-sector group of a REL
\* entry (the table of its first side sector)
InUse(d, i) ==
  CASE i[1] = "bam" -> { << DIRECTORY_TRACK, BAM_SECTOR >> }
    [] i[1] = "dir" -> Range(DirWalk(d).secs)
    [] i[1] = "data" ->
         Range(ChainFrom(d, << GetByte(d.data, i[2] + 1), GetByte(d.data, i[2] + 2) >>,
                         << >>).secs)
    [] i[1] = "side" ->
         IF TypeCode(d.data, i[2]) = REL THEN SideSectorsOf(d, i[2]) ELSE {}

InUseSets(d) == [k \in 1..Len(InUseIndex(d)) |-> InUse(d, InUseIndex(d)[k])]

\* the sizes of the sets k..Len(sets) added up
RECURSIVE SectorCount(_, _)
SectorCount(sets, k) ==
  IF k > Len(sets) THEN 0 ELSE Cardinality(sets[k]) + SectorCount(sets, k + 1)

\* C29: after any sequence of addFile and removeFile calls on a freshly
\* formatted disk the data chains of distinct live files, the side-sector
\* groups of live REL files, the directory chain and the BAM sector are
\* pairwise disjoint (their union has as many sectors as the sets have
\* together), and every sector in any of them is allocated in the BAM.
C29_SectorsDisjoint ==
  LET Disjoint(sets, all) ==
        /\ Cardinality(all) = SectorCount(sets, 1)
        /\ all \subseteq AllocatedSectors(Disk)
      Checked(sets) == Disjoint(sets, UNION Range(sets))
  IN Checked(InUseSets(Disk))

\* C29 witness: the second call, an addFile, succeeded on an image on which a
\* live REL file has a side sector and the directory chain has two sectors
C29_Witness ==
  /\ ops = 2
  /\ last.op = "addFile"
  /\ last.ret
  /\ Len(DirWalk(Disk).secs) >= 2
  /\ \E i \in Range(InUseIndex(Disk)) : i[1] = "side" /\ InUse(Disk, i) # {}

\* ---- specification of the directory chain -------------------------------------
\* formatDisk, addFile, removeFile, reorderDirectory, movefileFirst and
\* compactDirectory from new images and from images with 7 and with 9 files
InitChain ==
  InitFrom(FreshDisks \cup ScriptDisks({ SeedScript(SeedFiles), SeedScript(LongSeedFiles) }))

NextChain ==
  \/ FormatDisk(NameA)
  \/ \E n \in { NameA, NameB }, k \in DirFileKinds, p \in Payloads : AddFile(n, k[1], p, k[2])
  \/ \E n \in DirNames : RemoveFile(n)
  \/ \E o \in DirOrders : ReorderDirectory(o)
  \/ \E n \in DirNames : MoveFileFirst(n)
  \/ CompactDirectory

SpecChain == InitChain /\ [][NextChain]_vars

\* the walk w from (18,1) ends on a sector with link header (0, 0xFF), and
\* every sector it visits after the first is valid and allocated
ChainLinked(d, w) ==
  /\ w.err = "none"
  /\ Len(w.secs) >= 1
  /\ Link(d.data, w.secs[Len(w.secs)]) = << 0, 255 >>
  /\ \A k \in 1..(Len(w.secs) - 1) :
       /\ Link(d.data, w.secs[k]) = w.secs[k + 1]
       /\ w.secs[k + 1] \in ValidSectors(d.TRACKS)
       /\ w.secs[k + 1] \in AllocatedSectors(d)

\* C30: in every state reachable through format, addFile, removeFile,
\* reorderDirectory, movefileFirst and compactDirectory the last sector of the
\* directory chain has link header (0, 0xFF) and every other sector of the
\* chain has a link header naming the valid, allocated sector that follows it.
C30_DirectoryChainLinked == ChainLinked(Disk, DirWalk(Disk))

\* the part of C30 on formatDisk, addFile and removeFile
C30_AddRemoveKeepChain ==
  [][ (last'.op \in { "formatDisk", "addFile", "removeFile" }
         /\ ChainLinked(Disk, DirWalk(Disk)))
        => ChainLinked(DiskNext, DirWalk(DiskNext)) ]_vars

\* ---- frame of the directory operations ----------------------------------------
\* the sectors of the image that are neither the BAM sector nor a sector of
\* the directory chain
OutsideDirectory(d) ==
  ValidSectors(d.TRACKS) \ ({ << 18, 0 >> } \cup Range(DirWalk(d).secs))

\* the 256 bytes of the sector ts
SectorImage(d, ts) == GetBytes(d.data, calcOffset(ts[1], ts[2]), 256)

DirectoryOps ==
  { "removeFile", "reorderDirectory", "reorderDirectoryEntries", "movefileFirst",
    "compactDirectory" }

\* C28: removeFile, reorderDirectory, movefileFirst and compactDirectory change
\* no byte outside the BAM sector and the sectors of the directory chain.
C28_DirectoryOpsFrame ==
  [][ (last'.op \in DirectoryOps /\ last'.err = "none" /\ DirWalk(Disk).err = "none")
        => \A ts \in OutsideDirectory(Disk) : SectorImage(DiskNext, ts) = SectorImage(Disk, ts) ]_vars

\* ---- specification of the search order of the allocator ------------------------
\* images on which findAndAllocateFreeSector ran 0 times, until track 18 was
\* full, until the tracks 1..35 were full, and until 0..MaxLeft sectors were left
SearchDisks ==
  { AllocateTimes(d, n) :
      d \in FreshDisks,
      n \in { 0, SECTORS_PER_TRACK[DIRECTORY_TRACK] - 2,
              D64_DISK35_SZ \div SECTOR_SIZE - 2 } }
    \cup { NearlyFull(d, left) : d \in FreshDisks, left \in 0..MaxLeft }

\* sectors given back between the allocations
SearchSectors == { << 18, 5 >>, << 17, 0 >>, << 1, 3 >>, << 35, 2 >>, << 40, 1 >> }

InitSearch == InitFrom(SearchDisks)

NextSearch ==
  \/ FindAndAllocateFreeSector
  \/ \E ts \in SearchSectors : FreeSector(ts[1], ts[2])

SpecSearch == InitSearch /\ [][NextSearch]_vars

\* the order 18, 17, 19, 16, 20, ..., 2, 34, 1, 35 and then 36..40 on
\* 40-track images
ClaimedOrder(tracks) ==
  << 18 >>
    \o [k \in 1..34 |-> IF k % 2 = 1 THEN 18 - (k + 1) \div 2 ELSE 18 + k \div 2]
    \o (IF tracks = TRACKS_40 THEN << 36, 37, 38, 39, 40 >> ELSE << >>)

\* the positions of `order` whose track has a sector with its BAM bit set
WithFreeSector(d, order) ==
  { k \in 1..Len(order) :
      \E s \in 0..(SECTORS_PER_TRACK[order[k]] - 1) : BamTest(d.data, order[k] - 1, s) }

\* C31: findAndAllocateFreeSector returns a sector of the first track, in the
\* order 18, 17, 19, 16, 20, ..., 2, 34, 1, 35 and then 36..40 on 40-track
\* images only, that has a free sector; it fails only when no track of the
\* image has a free sector, and on a 35-track image it never returns a track
\* above 35.
C31_SearchOrder ==
  [][ (last'.op = "findAndAllocateFreeSector")
        => LET Answer(order, free) ==
                 IF free = {} THEN ~last'.ret
                 ELSE /\ last'.ret
                      /\ last'.ts[1] = order[CHOOSE k \in free : \A j \in free : k <= j]
                      /\ BamTest(data, last'.ts[1] - 1, last'.ts[2])
                      /\ TRACKS = TRACKS_35 => last'.ts[1] <= TRACKS_35
           IN Answer(ClaimedOrder(TRACKS), WithFreeSector(Disk, ClaimedOrder(TRACKS))) ]_vars

\* C31 witness: with the tracks 1..35 of a 40-track image full, the call
\* returned a sector of track 36
C31_Witness ==
  /\ last.op = "findAndAllocateFreeSector"
  /\ last.ret
  /\ last.ts[1] = 36
  /\ \A t \in 1..TRACKS_35 : BamFree(data, t - 1) = 0

\* the 4 bytes of the BAM entry of track t: free count and bitmap
BamEntry(d, t) == GetBytes(d.data, bamtrack(t - 1), 4)

\* the offsets i of the scan (cursor + 10 + i) mod n of track t that meet a
\* sector whose BAM bit is set
ScanHits(d, t) ==
  { i \in 0..(SECTORS_PER_TRACK[t] - 1) :
      BamTest(d.data, t - 1, (d.lastSectorUsed[t] + 10 + i) % SECTORS_PER_TRACK[t]) }

\* C32: an allocation on track t with n sectors examines the sectors
\* (cursor[t] + 10 + i) mod n for i = 0..n-1 in that order, allocates the
\* first one whose BAM bit is set and sets cursor[t] to it; it changes no
\* other track's cursor or BAM entry, and when no sector is free it fails
\* without changing anything.
C32_ScanWithinTrack ==
  [][ (last'.op = "findAndAllocateFreeSector")
        => IF last'.ret
             THEN LET t == last'.ts[1]
                      n == SECTORS_PER_TRACK[t]
                      First(hits) == CHOOSE i \in hits : \A j \in hits : i <= j
                  IN /\ ScanHits(Disk, t) # {}
                     /\ last'.ts[2] = (lastSectorUsed[t] + 10 + First(ScanHits(Disk, t))) % n
                     /\ ~BamTest(data', t - 1, last'.ts[2])
                     /\ lastSectorUsed'[t] = last'.ts[2]
                     /\ \A u \in (1..TRACKS_40) \ { t } : lastSectorUsed'[u] = lastSectorUsed[u]
                     /\ \A u \in (1..TRACKS) \ { t } : BamEntry(DiskNext, u) = BamEntry(Disk, u)
             ELSE data' = data /\ lastSectorUsed' = lastSectorUsed ]_vars

\* C32 witness: with every other sector of track 18 allocated, the scan went
\* past allocated sectors to the freed sector (18,5) and left the cursor on it
C32_Witness ==
  /\ last.op = "findAndAllocateFreeSector"
  /\ last.ret
  /\ last.ts = << 18, 5 >>
  /\ lastSectorUsed[18] = 5
  /\ Len(allocations) = 1
  /\ BamFree(data, 17) = 0

\* ---- specification of the directory slots ---------------------------------------
\* images whose directory sectors are full (8 and 16 files), images with a
\* free slot in the first of two directory sectors, an image whose full
\* directory was reordered, and the images of the long call sequences
SlotScripts ==
  { SeedScript(FILES_PER_SECTOR), SeedScript(2 * FILES_PER_SECTOR),
    SeedScript(LongSeedFiles) \o << RemoveStep(NameF(2)) >>,
    SeedScript(LongSeedFiles) \o << RemoveStep(NameF(FILES_PER_SECTOR)) >>,
    SeedScript(FILES_PER_SECTOR) \o << ReorderStep(<< NameF(2) >>) >>,
    StaleLinkScript, FreedDirectoryScript }

InitSlots == InitFrom(FreshDisks \cup ScriptDisks(SlotScripts))

NextSlots ==
  \/ \E n \in { NameA, NameB }, k \in CodecKinds, p \in Payloads :
       AddFile(n, k[1], p, k[2])
  \/ \E n \in { NameA, NameB, NameF(1), NameF(FILES_PER_SECTOR) } : RemoveFile(n)

SpecSlots == InitSlots /\ [][NextSlots]_vars

\* the offsets of all slots of the directory sectors secs, in traversal order
SlotsOf(secs) ==
  [k \in 1..(FILES_PER_SECTOR * Len(secs)) |->
     EntryOff(secs[((k - 1) \div FILES_PER_SECTOR) + 1], (k - 1) % FILES_PER_SECTOR)]

\* the slots of the directory chain of d whose closed bit is clear
EmptySlots(d) == SelectSeq(SlotsOf(DirWalk(d).secs), LAMBDA eo : ~Closed(d.data, eo))

\* the sectors a file of the call's type and payload takes: its data sectors
\* and, for a REL file, one side sector
FileSectors(call) ==
  DataSectors(Len(call.payload)) + (IF call.type % 16 = REL THEN 1 ELSE 0)

\* the slot at offset eo holds the entry of the call after the step
HoldsNewEntry(eo) ==
  /\ GetByte(data', eo) = last'.type
  /\ GetBytes(data', eo + 3, FILE_NAME_SZ) = PadName(last'.name)

\* the successful addFile of the step found every slot live: one sector ns
\* was allocated on top of those of the file and appended to the chain
DirectoryGrown(w, ns) ==
  /\ Cardinality(NewlyAllocated) = FileSectors(last') + 1
  /\ ns \in NewlyAllocated
  /\ DirWalk(DiskNext).err = "none"
  /\ DirWalk(DiskNext).secs = Append(w.secs, ns)
  /\ Link(data', w.secs[Len(w.secs)]) = ns
  /\ Link(data', ns) = << 0, 255 >>
  /\ HoldsNewEntry(EntryOff(ns, 0))
  /\ GetBytes(data', EntryOff(ns, 1), SECTOR_SIZE - 2 - DIR_ENTRY_BYTES)
       = Repeat(0, SECTOR_SIZE - 2 - DIR_ENTRY_BYTES)

\* the successful addFile of the step found the empty slot eo first
SlotReused(eo) ==
  /\ Cardinality(NewlyAllocated) = FileSectors(last')
  /\ HoldsNewEntry(eo)

\* C33: when addFile needs a slot and every slot of every sector of the
\* directory chain is live, exactly one new directory sector is allocated,
\* the link header of the previous last sector is set to its address, the
\* new sector is zero-filled with link header (0, 0xFF) and the new entry is
\* stored in its first slot; when some slot has its closed bit clear, no
\* sector is allocated and the first such slot in traversal order is used.
C33_DirectorySlot ==
  [][ (last'.op = "addFile" /\ last'.ret /\ last'.err = "none" /\ DirWalk(Disk).err = "none")
        => IF EmptySlots(Disk) = << >>
             THEN DirectoryGrown(DirWalk(Disk),
                                 Link(data', DirWalk(Disk).secs[Len(DirWalk(Disk).secs)]))
           ELSE SlotReused(EmptySlots(Disk)[1]) ]_vars

\* C33 witness: addFile stored its entry in the first slot of a third
\* directory sector
C33_Witness ==
  /\ last.op = "addFile"
  /\ last.ret
  /\ Len(DirWalk(Disk).secs) = 3
  /\ findFile(Disk, last.name).found
  /\ findFile(Disk, last.name).eo = EntryOff(DirWalk(Disk).secs[3], 0)

\* ---- specification of the directory entry addFile writes -----------------------
\* addFile with a record size; the call record holds the record size and the
\* length of the payload in place of its bytes
RecordFileAdded(r, name, type, payload, recordSize) ==
  /\ Step(r, [op |-> "addFile", name |-> name, payload |-> << >>, type |-> type,
              ts |-> << 0, 0 >>, ret |-> r.ret, err |-> r.err,
              size |-> Len(payload), recordSize |-> recordSize])
  /\ UNCHANGED << allocations, relRemoved >>

AddRecordFile(name, type, payload, recordSize) ==
  RecordFileAdded(addFile(Disk, name, type, payload, recordSize), name, type, payload,
                  recordSize)

\* a name of 17 characters
LongName == [i \in 1..(FILE_NAME_SZ + 1) |-> 64 + i]

\* the calls << name, file type, record size, payload >>: c64FileType(PRG),
\* c64FileType(SEQ) with a record size, c64FileType(false, false, PRG), whose
\* closed bit is clear, c64FileType(REL) with the record sizes 64, 0, 254 and
\* 255, and files of 257 data sectors
EntryCalls ==
  { << NameA, FileTypeByte(PRG), 0, Payload(3, 7) >>,
    << LongName, FileTypeByte(SEQ), 7, Payload(255, 100) >>,
    << NameA, PRG, 0, Payload(3, 7) >>,
    << NameA, FileTypeByte(REL), 64, Payload(3, 7) >>,
    << NameA, FileTypeByte(REL), 0, Payload(3, 7) >>,
    << LongName, FileTypeByte(REL), 254, Payload(255, 100) >>,
    << NameA, FileTypeByte(REL), 255, Payload(3, 7) >>,
    << NameA, FileTypeByte(PRG), 0, PayloadOfSectors(SECTOR_SIZE + 1) >>,
    << NameA, FileTypeByte(REL), 64, PayloadOfSectors(SECTOR_SIZE + 1) >> }

NextEntry ==
  \/ \E c \in EntryCalls : AddRecordFile(c[1], c[2], c[4], c[3])
  \/ RemoveFile(NameA)

SpecEntry == InitFrom(StartDisks) /\ [][NextEntry]_vars

\* the slot the addFile of the step wrote its entry to (C33)
WrittenSlot ==
  IF EmptySlots(Disk) = << >>
    THEN EntryOff(Link(data', DirWalk(Disk).secs[Len(DirWalk(Disk).secs)]), 0)
  ELSE EmptySlots(Disk)[1]

\* the entry at offset eo after the step is as C34 says for the call of the
\* step, first the first data sector of the file
EntryAsClaimed(eo, first) ==
  LET side == << GetByte(data', eo + 19), GetByte(data', eo + 20) >>
      n == DataSectors(last'.size)
  IN /\ GetByte(data', eo) >= 128
     /\ << GetByte(data', eo + 1), GetByte(data', eo + 2) >> = first
     /\ GetBytes(data', eo + 3, FILE_NAME_SZ)
          = [i \in 1..FILE_NAME_SZ |->
               IF i <= Len(last'.name) THEN last'.name[i] ELSE A0_VALUE]
     /\ << GetByte(data', eo + 26), GetByte(data', eo + 27) >> = first
     /\ << GetByte(data', eo + 28), GetByte(data', eo + 29) >> = << n % 256, n \div 256 >>
     /\ IF last'.type % 16 = REL
          THEN /\ side \in NewlyAllocated
               /\ GetByte(data', calcOffset(side[1], side[2]) + 2) = 0
               /\ GetByte(data', eo + 21) = last'.recordSize
          ELSE side = << 0, 0 >> /\ GetByte(data', eo + 21) = 0

\* the first data sector of a file added in the state: the sector
\* findAndAllocateFreeSector returns
FirstDataSector(a) == << a.track, a.sector >>

\* C34: the directory entry written by a successful addFile has closed bit 1,
\* start equal to the first data sector, the name right-padded with 0xA0 to
\* 16 bytes (truncated beyond 16), replace equal to start, file_size equal to
\* the number of data sectors as a 16-bit little-endian value, and side
\* pointer / record length equal to (first side sector, record size) for REL
\* and (0,0) / 0 for every other type.
C34_EntryFields ==
  [][ (last'.op = "addFile" /\ last'.ret /\ last'.err = "none")
        => EntryAsClaimed(WrittenSlot, FirstDataSector(findAndAllocateFreeSector(Disk))) ]_vars

\* C34 for the file types whose closed bit is set
C34_ClosedTypeFields ==
  [][ (last'.op = "addFile" /\ last'.ret /\ last'.err = "none" /\ last'.type >= 128)
        => EntryAsClaimed(WrittenSlot, FirstDataSector(findAndAllocateFreeSector(Disk))) ]_vars

\* the record lengths of the live REL entries of d
RelRecordLengths(d) ==
  { GetByte(d.data, eo + 21) :
      eo \in { x \in Range(LiveSlots(d, DirWalk(d).secs)) : TypeCode(d.data, x) = REL } }

\* C38: every live REL directory entry has a record length between 1 and
\* 254: addFile of a REL file with a record size outside 1..254 (the default
\* value 0 included) is rejected and creates no entry.
C38_RecordLengthChecked ==
  [][ (last'.op = "addFile" /\ last'.type % 16 = REL /\ last'.recordSize \notin 1..254)
        => /\ ~last'.ret
           /\ directory(DiskNext).files = directory(Disk).files
           /\ RelRecordLengths(DiskNext) \subseteq 1..254 ]_vars

\* the part of C38 on the record sizes 1..254: the entry holds the size
C38_ValidRecordLengthStored ==
  [][ (last'.op = "addFile" /\ last'.ret /\ last'.err = "none" /\ last'.type >= 128
         /\ last'.type % 16 = REL /\ last'.recordSize \in 1..254)
        => GetByte(data', WrittenSlot + 21) = last'.recordSize ]_vars

\* ---- specification of the side sectors of REL files ----------------------------
\* numbers of data sectors: one side sector (1, 119, 120), two (121), three (241)
SideLengths ==
  { 1, SIDE_SECTOR_CHAIN_SZ - 1, SIDE_SECTOR_CHAIN_SZ, SIDE_SECTOR_CHAIN_SZ + 1,
    2 * SIDE_SECTOR_CHAIN_SZ + 1 }

NextSide ==
  \E name \in RelNames, n \in SideLengths :
    AddRecordFile(name, FileTypeByte(REL), PayloadOfSectors(n), 64)

SpecSide == InitFrom(FreshDisks) /\ [][NextSide]_vars

\* the addFile of the step added a REL file of 1..720 data sectors
RelFileAdded ==
  /\ last'.op = "addFile"
  /\ last'.ret
  /\ last'.err = "none"
  /\ last'.type = FileTypeByte(REL)
  /\ DataSectors(last'.size) \in 1..(SIDE_SECTOR_ENTRY_SIZE * SIDE_SECTOR_CHAIN_SZ)

\* the side pointer of the entry at offset eo
SidePointer(d, eo) == << GetByte(d.data, eo + 19), GetByte(d.data, eo + 20) >>

\* bytes 4..15 of the sector ts, read as a side sector: the table of the group
SideTable(d, ts) == GetBytes(d.data, calcOffset(ts[1], ts[2]) + 4, 2 * SIDE_SECTOR_ENTRY_SIZE)

\* the side sectors the call allocated: the sectors it allocated that are
\* neither a new directory sector nor reached from the start sector by k
\* links, k below the number of data sectors; the walk from ts is run as
\* passes on the record c = [ts, secs]
LinkPass(d, c) ==
  IF c.ts[1] = 0 \/ ~isValidTrackSector(d, c.ts[1], c.ts[2]) THEN c
  ELSE [ts |-> Link(d.data, c.ts), secs |-> Append(c.secs, c.ts)]

RECURSIVE LinkPasses(_, _, _)
LinkPasses(d, c, n) ==
  IF c.ts[1] = 0 \/ n <= 0 THEN c
  ELSE IF n = 1 THEN LinkPass(d, c)
  ELSE LinkPasses(d, LinkPasses(d, c, n \div 2), n - n \div 2)

\* the first n sectors of the chain of link headers from start
LinkedFrom(d, start, n) == LinkPasses(d, [ts |-> start, secs |-> << >>], n).secs

DataSectorsAdded(eo) ==
  LinkedFrom(DiskNext, << GetByte(data', eo + 1), GetByte(data', eo + 2) >>,
             DataSectors(last'.size) + 1)

SideSectorsAdded(eo) ==
  (NewlyAllocated \ Range(DataSectorsAdded(eo))) \ Range(DirWalk(DiskNext).secs)

\* C35: after a REL file with k >= 1 side sectors has been added, bytes 4..15
\* of every one of its k side sectors hold the same list of all k side-sector
\* addresses in block order, and each side sector carries its block number
\* and the file's record size.
C35_SideSectorTable ==
  [][ RelFileAdded
        => LET Group(sides, table) ==
                 /\ Len(table) = Cardinality(sides)
                 /\ Range(table) = sides
                 /\ \A i \in 1..Len(table) :
                      /\ SideTable(DiskNext, table[i]) = SideTable(DiskNext, table[1])
                      /\ GetByte(data', calcOffset(table[i][1], table[i][2]) + 2) = i - 1
                      /\ GetByte(data', calcOffset(table[i][1], table[i][2]) + 3)
                           = last'.recordSize
           IN Group(SideSectorsAdded(WrittenSlot),
                    PairsUntilZero(data', calcOffset(SidePointer(DiskNext, WrittenSlot)[1],
                                                     SidePointer(DiskNext, WrittenSlot)[2]) + 4,
                                   SIDE_SECTOR_ENTRY_SIZE)) ]_vars

\* the part of C35 on files with one side sector
C35_OneSideSector ==
  [][ (RelFileAdded /\ DataSectors(last'.size) <= SIDE_SECTOR_CHAIN_SZ)
        => /\ SideSectorsAdded(WrittenSlot) = { SidePointer(DiskNext, WrittenSlot) }
           /\ SideTable(DiskNext, SidePointer(DiskNext, WrittenSlot))
                = SidePointer(DiskNext, WrittenSlot) \o Repeat(0, 2 * SIDE_SECTOR_ENTRY_SIZE - 2)
           /\ GetBytes(data', calcOffset(SidePointer(DiskNext, WrittenSlot)[1],
                                         SidePointer(DiskNext, WrittenSlot)[2]) + 2, 2)
                = << 0, last'.recordSize >> ]_vars

\* the side sectors reached from ts by link header, as parseSideSectors walks
\* them, up to one more than a group may hold
RECURSIVE SideWalk(_, _, _)
SideWalk(d, ts, acc) ==
  IF ts[1] = 0 \/ ~isValidTrackSector(d, ts[1], ts[2]) \/ Len(acc) > SIDE_SECTOR_ENTRY_SIZE
  THEN acc
  ELSE SideWalk(d, Link(d.data, ts), Append(acc, ts))

\* the chain entries of the side sector ts
SideChain(d, ts) ==
  PairsUntilZero(d.data, calcOffset(ts[1], ts[2]) + 16, SIDE_SECTOR_CHAIN_SZ)

\* the chain entries of the side sectors of group, one after the other
RECURSIVE SideChains(_, _, _)
SideChains(d, group, k) ==
  IF k > Len(group) THEN << >>
  ELSE SideChain(d, group[k]) \o SideChains(d, group, k + 1)

\* C36: in the side-sector group built for a REL file with n data sectors
\* (1 <= n <= 720), every non-last side sector's link header holds the address
\* of the next side sector and the last one's link header is (0, 16 + 2*c),
\* c <= 120 being the number of chain entries it holds, so that walking the
\* group by link header from the directory entry's side pointer and
\* concatenating the chain entries yields exactly the file's n data sectors
\* in file order.
C36_SideSectorLinks ==
  [][ RelFileAdded
        => LET n == DataSectors(last'.size)
               group == SideWalk(DiskNext, SidePointer(DiskNext, WrittenSlot), << >>)
               tail == group[Len(group)]
           IN /\ Len(group) = (n + SIDE_SECTOR_CHAIN_SZ - 1) \div SIDE_SECTOR_CHAIN_SZ
              /\ Range(group) = SideSectorsAdded(WrittenSlot)
              /\ Len(SideChain(DiskNext, tail)) <= SIDE_SECTOR_CHAIN_SZ
              /\ Link(data', tail) = << 0, 16 + 2 * Len(SideChain(DiskNext, tail)) >>
              /\ SideChains(DiskNext, group, 1) = SubSeq(DataSectorsAdded(WrittenSlot), 1, n)
              /\ Len(DataSectorsAdded(WrittenSlot)) = n ]_vars

\* the part of C36 on files whose last side sector is not full and that have
\* at most two side sectors
C36_ShortGroupLinks ==
  [][ (RelFileAdded /\ DataSectors(last'.size) <= 2 * SIDE_SECTOR_CHAIN_SZ
                    /\ DataSectors(last'.size) % SIDE_SECTOR_CHAIN_SZ # 0)
        => LET n == DataSectors(last'.size)
               group == SideWalk(DiskNext, SidePointer(DiskNext, WrittenSlot), << >>)
               tail == group[Len(group)]
           IN /\ Len(group) = (n + SIDE_SECTOR_CHAIN_SZ - 1) \div SIDE_SECTOR_CHAIN_SZ
              /\ Range(group) = SideSectorsAdded(WrittenSlot)
              /\ Link(data', tail) = << 0, 16 + 2 * Len(SideChain(DiskNext, tail)) >>
              /\ SideChains(DiskNext, group, 1) = DataSectorsAdded(WrittenSlot)
              /\ Len(DataSectorsAdded(WrittenSlot)) = n ]_vars

\* ---- specification of verifyBAMIntegrity called twice -------------------------
RECURSIVE AllocateAll(_, _, _)
AllocateAll(d, list, k) ==
  IF k > Len(list) THEN d
  ELSE AllocateAll(allocateSector(d, list[k][1], list[k][2]).d, list, k + 1)

\* the sectors lo..hi of a track
TrackSectors(track, lo, hi) == [i \in 1..(hi - lo + 1) |-> << track, lo + i - 1 >>]

\* d after writeSector has put bytes at position p of the sector ts
Overwritten(d, ts, p, bytes) ==
  LET old == GetBytes(d.data, calcOffset(ts[1], ts[2]), SECTOR_SIZE)
  IN writeSector(d, ts[1], ts[2],
                 SubSeq(old, 1, p) \o bytes \o SubSeq(old, p + Len(bytes) + 1, SECTOR_SIZE)).d

\* the bytes of a trackSector array
PairBytes(list) == [i \in 1..(2 * Len(list)) |-> list[(i + 1) \div 2][2 - (i % 2)]]

\* a 35-track image with one REL file of one data sector
RelDisk == addFile(init_disk(TRACKS_35), NameA, FileTypeByte(REL), Payload(3, 7), 64).d

\* RelDisk after writeSector has set the side pointer of the file to the BAM
\* sector and sectors 1..15 of track 1 have been allocated: the BAM entry of
\* track 1, bytes 4..7 of the BAM sector, is 6, 0x01, 0x00, 0x1F and reads as
\* the side-sector list (6,1)
BamAsSideSector ==
  AllocateAll(Overwritten(RelDisk, << DIRECTORY_TRACK, DIRECTORY_SECTOR >>, 2 + 19,
                          << DIRECTORY_TRACK, BAM_SECTOR >>),
              TrackSectors(1, 1, 15), 1)

\* the same image after writeSector has put the chain (1,2), ..., (1,15) into
\* sector (6,1)
BamAsSideSectorChained ==
  Overwritten(BamAsSideSector, << 6, 1 >>, 16, PairBytes(TrackSectors(1, 2, 15)) \o << 0, 0 >>)

\* images whose BAM does not agree with the directory: sectors allocated that
\* no file owns, sectors of files freed, a free sector freed again, the side
\* sector a removed REL file leaves allocated, an image of 40 tracks with
\* sectors allocated on tracks 36 and 40
VerifyDisks ==
  LET seeded == RunScript(init_disk(TRACKS_35), SeedScript(SeedFiles))
  IN { init_disk(TRACKS_35), seeded, RelDisk,
       AllocateAll(seeded, << << 1, 3 >>, << 17, 20 >>, << 35, 16 >> >>, 1),
       FreeAll(seeded, EntryChain(seeded, findFile(seeded, NameF(1)).eo).secs, 1),
       FreeAll(AllocateAll(seeded, << << 18, 18 >> >>, 1),
               << << 1, 3 >>, << 1, 3 >>, << 18, 4 >> >>, 1),
       removeFile(RelDisk, NameA).d,
       AllocateAll(init_disk(TRACKS_40), << << 36, 0 >>, << 40, 16 >>, << 18, 1 >> >>, 1),
       BamAsSideSector, BamAsSideSectorChained }

VerifySectors == { << 1, 3 >>, << 18, 4 >>, << 18, 1 >>, << 36, 0 >> }

\* verifyBAMIntegrity; the call record holds the argument
VerifyRecorded(fix) ==
  /\ Step(verifyBAMIntegrity(Disk, fix),
          [op |-> "verifyBAMIntegrity", name |-> << >>, payload |-> << >>, type |-> 0,
           ts |-> << 0, 0 >>, ret |-> verifyBAMIntegrity(Disk, fix).ret,
           err |-> verifyBAMIntegrity(Disk, fix).err, fix |-> fix])
  /\ UNCHANGED << allocations, relRemoved >>

NextVerify ==
  \/ \E fix \in BOOLEAN : VerifyRecorded(fix)
  \/ \E ts \in VerifySectors : AllocateSector(ts[1], ts[2])
  \/ \E ts \in VerifySectors : FreeSector(ts[1], ts[2])
  \/ \E n \in { NameA, NameF(1) } : RemoveFile(n)
  \/ \E k \in CodecKinds : AddFile(NameB, k[1], Payload(3, 7), k[2])

SpecVerify == InitFrom(VerifyDisks) /\ [][NextVerify]_vars

\* a verifyBAMIntegrity(fix) call of the step returned
VerifyReturned(fix) ==
  /\ last'.op = "verifyBAMIntegrity"
  /\ last'.fix = fix
  /\ last'.err = "none"

\* verifyBAMIntegrity(false) on the image the step leaves returns true
VerifiesNext ==
  /\ verifyBAMIntegrity(DiskNext, FALSE).err = "none"
  /\ verifyBAMIntegrity(DiskNext, FALSE).ret

\* the second of two verifyBAMIntegrity calls, the first with fix = true and
\* the second with fix = false, returns true
SecondVerifies ==
  (/\ last.op = "verifyBAMIntegrity" /\ last.fix /\ last.err = "none"
   /\ last'.op = "verifyBAMIntegrity" /\ ~last'.fix)
    => (last'.ret /\ last'.err = "none")

\* the scan of verifyBAMIntegrity reads the BAM sector as a directory sector,
\* as the first side sector of a live REL entry or as one of the side sectors
\* that one lists
ReadsBamSector(d) ==
  LET bam == << DIRECTORY_TRACK, BAM_SECTOR >>
      w == DirWalk(d)
      Side(eo) == SidePointer(d, eo)
  IN \/ bam \in Range(w.secs)
     \/ \E k \in 1..Len(LiveSlots(d, w.secs)) :
          LET eo == LiveSlots(d, w.secs)[k]
          IN /\ TypeCode(d.data, eo) = REL
             /\ isValidTrackSector(d, Side(eo)[1], Side(eo)[2])
             /\ \/ Side(eo) = bam
                \/ bam \in Range(PairsUntilZero(d.data,
                                                calcOffset(Side(eo)[1], Side(eo)[2]) + 4,
                                                SIDE_SECTOR_ENTRY_SIZE))

\* C37 as stated: for any image whose directory chain and file chains can be
\* traversed, after verifyBAMIntegrity(fix=true) returns, an immediately
\* following verifyBAMIntegrity(fix=false) returns true.
C37_Original ==
  [][ (VerifyReturned(TRUE) => VerifiesNext) /\ SecondVerifies ]_vars

\* C37 amended: for any image whose directory chain and file chains can be
\* traversed and in which the BAM sector is neither a directory sector nor a
\* side sector of a live REL file, after verifyBAMIntegrity(fix=true) returns,
\* an immediately following verifyBAMIntegrity(fix=false) returns true.
C37_FixThenVerify ==
  [][ /\ (VerifyReturned(TRUE) /\ ~ReadsBamSector(Disk)) => VerifiesNext
      /\ ~ReadsBamSector(Disk) => SecondVerifies ]_vars

\* C37 witness: verifyBAMIntegrity(fix=true) found and fixed errors, and the
\* verifyBAMIntegrity(fix=false) after it returned true
C37_Witness ==
  /\ ops = 2
  /\ last.op = "verifyBAMIntegrity"
  /\ ~last.fix
  /\ last.ret
  /\ ~ReadsBamSector(Disk)
  /\ \E d \in VerifyDisks :
       /\ ~verifyBAMIntegrity(d, FALSE).ret
       /\ verifyBAMIntegrity(d, FALSE).err = "none"
       /\ Disk = verifyBAMIntegrity(d, TRUE).d

\* ---- formatDisk and the last-sector cursors -----------------------------------
\* the sector findAndAllocateFreeSector returns first on a newly constructed
\* disk of the given number of tracks
FirstOfNewDisk(tracks) ==
  << findAndAllocateFreeSector(init_disk(tracks)).track,
     findAndAllocateFreeSector(init_disk(tracks)).sector >>

\* C39: formatDisk resets the last-sector cursor of every track to its
\* initial value, so that the sequence of sectors returned by
\* findAndAllocateFreeSector after a formatDisk is the same as on a newly
\* constructed disk of the same type, whatever allocations preceded the
\* format.
C39_FormatResetsCursors ==
  [][ /\ last'.op = "formatDisk"
           => lastSectorUsed' = init_disk(TRACKS').lastSectorUsed
      /\ (last.op = "formatDisk" /\ last'.op = "findAndAllocateFreeSector")
           => (last'.ret /\ last'.ts = FirstOfNewDisk(TRACKS)) ]_vars

\* the part of C39 on the image: formatDisk leaves the bytes of a newly
\* constructed disk of the same type that was given the same name, and leaves
\* every cursor as it was
C39_FormatResetsImage ==
  [][ last'.op = "formatDisk"
        => /\ data' = formatDisk(init_disk(TRACKS'), last'.name).data
           /\ lastSectorUsed' = lastSectorUsed
           /\ TRACKS' = TRACKS ]_vars

\* ---- specification of calcOffset ------------------------------------------------
\* the first sector, the last sector and the first invalid sector number of
\* every track, and the tracks below and above the range
OffsetSectors ==
  UNION { { << t, 0 >>, << t, SECTORS_PER_TRACK[t] - 1 >>, << t, SECTORS_PER_TRACK[t] >> } :
          t \in 1..TRACKS_40 }
    \cup { << 0, 0 >>, << TRACKS_40 + 1, 0 >> }

\* calcOffset; the call record holds the returned offset
OffsetOf(t, s) ==
  /\ ReadReturnedOk(calcOffsetChecked(Disk, t, s), "calcOffset", << t, s >>)
  /\ UNCHANGED << allocations, relRemoved >>

NextOffsets == \E ts \in OffsetSectors : OffsetOf(ts[1], ts[2])

SpecOffsets == InitFrom(FreshDisks) /\ [][NextOffsets]_vars

\* the number of sectors on the tracks before track t
RECURSIVE SectorsBefore(_)
SectorsBefore(t) == IF t <= 1 THEN 0 ELSE SectorsBefore(t - 1) + SECTORS_PER_TRACK[t - 1]

\* the byte ranges of two sectors have no byte in common
RangesApart(o1, o2) == o1 + SECTOR_SIZE <= o2 \/ o2 + SECTOR_SIZE <= o1

\* C40: for every track t in 1..40, TRACK_OFFSETS[t-1] equals 256 times the
\* sum of SECTORS_PER_TRACK over the tracks before t, so for every valid
\* (track, sector) calcOffset returns that value plus 256*sector; distinct
\* valid coordinates map to non-overlapping 256-byte ranges lying entirely
\* inside the buffer (offset + 256 <= 174848 on 35 tracks, <= 196608 on 40
\* tracks).
C40_OffsetTable ==
  [][ /\ \A t \in 1..TRACKS_40 : TRACK_OFFSETS[t] = 256 * SectorsBefore(t)
      /\ (last'.op = "calcOffset" /\ isValidTrackSector(Disk, last'.ts[1], last'.ts[2]))
           => /\ last'.ret
              /\ last'.err = "none"
              /\ last'.payload = 256 * SectorsBefore(last'.ts[1]) + 256 * last'.ts[2]
              /\ last'.payload >= 0
              /\ last'.payload + 256 <= (IF TRACKS = TRACKS_35 THEN 174848 ELSE 196608)
              /\ \A other \in ValidSectors(TRACKS) \ { last'.ts } :
                   RangesApart(last'.payload, calcOffset(other[1], other[2])) ]_vars

\* C40 witness: calcOffset returned the offset of the last sector of a
\* 40-track image, whose range ends at the end of the buffer
C40_Witness ==
  /\ last.op = "calcOffset"
  /\ last.ret
  /\ TRACKS = TRACKS_40
  /\ last.ts = << TRACKS_40, SECTORS_PER_TRACK[TRACKS_40] - 1 >>
  /\ last.payload + SECTOR_SIZE = D64_DISK40_SZ

TypeOK ==
  /\ TRACKS \in {TRACKS_35, TRACKS_40}
  /\ ops \in 0..MaxOps
  /\ \A k \in DOMAIN data : Len(data[k]) = SECTOR_SIZE

=============================================================================
